---- MODULE Spec2Model ----
(***************************************************************************)
(* Shift-rota scheduler: the monthly assignment generator, the historical  *)
(* state manager, the schedule cache and the usage governor, modelled from *)
(* schedule.py, routes.py and models.py.                                   *)
(*                                                                         *)
(* Time is a single wall clock `now`, counted in hours from 1 November     *)
(* 2025 00:00.  Employees are the integers 1..MaxEmp; a schedule lists      *)
(* employees by name (ename), the way the JSON schedule does.              *)
(***************************************************************************)
EXTENDS Integers, Sequences, FiniteSets, TLC

VARIABLES
  ename,             \* Employee.name, by employee id
  level,             \* Employee.designation.hierarchy_level, by employee id
  active,            \* ids of the employees with is_active
  members,           \* team.members: employee ids in TeamMember order
  shift_template,    \* team.shift_template
  people_per_shift,  \* team.people_per_shift
  history,           \* EmployeeHistory rows, in created_at order
  cache,             \* ScheduleCache rows, in insertion order
  usage,             \* APIUsageLog rows, in insertion order
  saved,             \* SavedSchedule of the team: <<>> or <<schedule>>
  validation_log,    \* ScheduleValidationLog rows, in insertion order
  rule_violations,   \* RuleViolation rows, in insertion order
  now,               \* wall clock, hours since 2025-11-01 00:00
  req,               \* the POST /generate_schedule requests in flight, by request
  ret                \* what the last operation returned

vars == <<ename, level, active, members, shift_template, people_per_shift,
          history, cache, usage, saved, validation_log, rule_violations, now, req,
          ret>>

teamVars == <<ename, level, active, members, shift_template, people_per_shift>>

logVars == <<validation_log, rule_violations>>

-----------------------------------------------------------------------------
(* Bounds of the model *)

MaxEmp == 4
MaxMonths == 2
MaxPps == 2
MaxMonthSteps == 1
MaxHits == 2
MaxCacheRows == 2

TeamId == 1
Emp == 1..MaxEmp
Levels == 1..3
None == "None"

-----------------------------------------------------------------------------
(* Generic helpers standing for Python built-ins *)

Range(s) == {s[i] : i \in DOMAIN s}

Min(a, b) == IF a < b THEN a ELSE b

Take(s, n) == SubSeq(s, 1, Min(n, Len(s)))

\* list(...) and dict(...): the value with every item computed
List(s) == s \o <<>>

Dict(f) == f @@ <<>>

Reverse(s) == List([i \in 1..Len(s) |-> s[Len(s) + 1 - i]])

\* sorted(s, key=...): stable; Less(a, b) is key(a) < key(b)
Sorted(s, Less(_, _)) ==
  LET n == Len(s)
      pos(i) == 1 + Cardinality({j \in 1..n :
                     Less(s[j], s[i]) \/ (~Less(s[i], s[j]) /\ j < i)})
  IN List([k \in 1..n |-> s[CHOOSE i \in 1..n : pos(i) = k]])

-----------------------------------------------------------------------------
(* The calendar behind datetime.today() / datetime.utcnow() *)

IsLeap(y) == (y % 4 = 0 /\ y % 100 # 0) \/ y % 400 = 0

DaysInMonth(y, m) ==
  IF m \in {4, 6, 9, 11} THEN 30
  ELSE IF m = 2 THEN (IF IsLeap(y) THEN 29 ELSE 28)
  ELSE 31

RECURSIVE DateOf(_, _, _)
DateOf(hours, y, m) ==
  IF hours < 24 * DaysInMonth(y, m)
  THEN [year |-> y, month |-> m, day |-> (hours \div 24) + 1, hour |-> hours % 24]
  ELSE DateOf(hours - 24 * DaysInMonth(y, m),
              IF m = 12 THEN y + 1 ELSE y,
              IF m = 12 THEN 1 ELSE m + 1)

Today(t) == DateOf(t, 2025, 11)

-----------------------------------------------------------------------------
(* StateManager: per-employee context from the history rows *)

HistoryRow(e, mk, shift, fl, ffs) ==
  [employee_id |-> e, team_id |-> TeamId, month_year |-> mk,
   shift_assigned |-> shift, was_floater |-> fl, floater_for_shift |-> ffs]

\* EmployeeHistory.query.filter_by(employee_id, team_id)
\*   .order_by(created_at.desc()).limit(months_back)
RecentHistory(h, e, months_back) ==
  Take(Reverse(SelectSeq(h, LAMBDA r : r.employee_id = e /\ r.team_id = TeamId)),
       months_back)

calculate_months_since_floater(hist) ==
  IF \E i \in 1..Len(hist) : hist[i].was_floater
  THEN (CHOOSE i \in 1..Len(hist) :
          hist[i].was_floater /\ \A j \in 1..(i - 1) : ~hist[j].was_floater) - 1
  ELSE Len(hist)

RECURSIVE CountLeading(_, _)
CountLeading(hist, shift) ==
  IF hist = <<>> \/ Head(hist).shift_assigned # shift THEN 0
  ELSE 1 + CountLeading(Tail(hist), shift)

calculate_consecutive_shifts(hist) ==
  IF hist = <<>> THEN 0
  ELSE 1 + CountLeading(Tail(hist), hist[1].shift_assigned)

get_employee_context(h, e) ==
  LET hist == RecentHistory(h, e, 3)
      withShift == SelectSeq(hist, LAMBDA r : r.shift_assigned # None)
  IN [last_shifts |-> List([i \in 1..Len(withShift) |-> withShift[i].shift_assigned]),
      floater_history |-> List([i \in 1..Len(hist) |-> hist[i].was_floater]),
      months_since_floater |-> calculate_months_since_floater(hist),
      consecutive_shift_count |-> calculate_consecutive_shifts(hist)]

-----------------------------------------------------------------------------
(* The generator *)

SHIFT_DESIRABILITY_ORDER ==
  <<"Morning", "Afternoon", "Evening", "Night", "Early Morning">>

team_shifts_map(t) ==
  CASE t = "3-shift" -> <<"Morning", "Afternoon", "Night">>
    [] t = "4-shift" -> <<"Morning", "Afternoon", "Evening", "Night">>
    [] t = "5-shift" -> <<"Early Morning", "Morning", "Afternoon", "Evening", "Night">>
    [] OTHER -> <<>>

desirable_shifts(t) ==
  SelectSeq(SHIFT_DESIRABILITY_ORDER, LAMBDA s : s \in Range(team_shifts_map(t)))

get_stability_months(hierarchy_level) ==
  IF hierarchy_level = 1 THEN 3
  ELSE IF hierarchy_level = 2 THEN 2
  ELSE 1

\* all_employees: the active members, sorted by hierarchy level
ActiveEmployees(mem, act) == SelectSeq(mem, LAMBDA e : e \in act)

AllEmployees(mem, act, lvl) ==
  Sorted(ActiveEmployees(mem, act), LAMBDA a, b : lvl[a] < lvl[b])

\* the rotation check of one member of the team in slot i
MustSwap(emp, i, n, shift_name, ctxLvl) ==
  /\ get_stability_months(ctxLvl.lvl[emp]) <= 1
  /\ ctxLvl.contexts[emp].last_shifts # <<>>
  /\ ctxLvl.contexts[emp].last_shifts[1] = shift_name
  /\ i + 1 <= n

\* one pass of "for emp in team": every stale member swaps slots i and i+1
RECURSIVE ApplySwaps(_, _, _, _, _, _)
ApplySwaps(team, k, teams, i, shift_name, ctxLvl) ==
  IF k > Len(team) THEN teams
  ELSE
    LET emp == team[k]
        next == IF MustSwap(emp, i, Len(teams), shift_name, ctxLvl)
                THEN [teams EXCEPT ![i] = teams[i + 1], ![i + 1] = teams[i]]
                ELSE teams
    IN ApplySwaps(team, k + 1, next, i, shift_name, ctxLvl)

\* "for i, (shift_name, team) in enumerate(zip(shifts, shift_teams))":
\* team is the list found in slot i when the iteration reaches it, and it is
\* the list written to monthly_assignments[shift_name]
RECURSIVE RotationLoop(_, _, _, _, _)
RotationLoop(i, teams, shifts, ctxLvl, out) ==
  IF i > Len(shifts) THEN out
  ELSE
    LET team == teams[i]
        after == ApplySwaps(team, 1, teams, i, shifts[i], ctxLvl)
    IN RotationLoop(i + 1, after, shifts, ctxLvl,
                    Append(out, [shift |-> shifts[i], team |-> team,
                                 swaps |-> Cardinality({k \in 1..Len(team) :
                                    MustSwap(team[k], i, Len(teams), shifts[i], ctxLvl)})]))

\* a selection that makes every eligible employee a floater
FloaterCandidatesAll(employees, contexts, lvl, num_floaters) ==
  IF num_floaters > 0
  THEN SelectSeq(employees, LAMBDA e : lvl[e] > 1)
  ELSE <<>>

\* a selection that ranks the eligible employees by hierarchy level alone
FloaterCandidatesByLevel(employees, contexts, lvl, num_floaters) ==
  IF num_floaters > 0
  THEN Take(Sorted(SelectSeq(employees, LAMBDA e : lvl[e] > 1),
                   LAMBDA a, b : lvl[a] < lvl[b]), num_floaters)
  ELSE <<>>

FloaterCandidates(employees, contexts, lvl, num_floaters) ==
  IF num_floaters > 0
  THEN LET eligible_for_floater == SelectSeq(employees, LAMBDA e : lvl[e] > 1)
           ranked == Sorted(eligible_for_floater, LAMBDA a, b :
                        \/ contexts[a].months_since_floater > contexts[b].months_since_floater
                        \/ /\ contexts[a].months_since_floater = contexts[b].months_since_floater
                           /\ lvl[a] < lvl[b])
       IN Take(ranked, num_floaters)
  ELSE <<>>

InitialShiftTeams(fixed_staff, n) ==
  List([k \in 1..n |-> SelectSeq(fixed_staff, LAMBDA e :
      \E i \in 1..Len(fixed_staff) : fixed_staff[i] = e /\ (i - 1) % n = k - 1)])

\* floaters[i] goes to shifts[i % len(shifts)]
FloatersOfShift(floater_candidates, k, n) ==
  LET idx == {i \in 1..Len(floater_candidates) : (i - 1) % n = k - 1}
  IN SelectSeq(floater_candidates, LAMBDA e :
       \E i \in idx : floater_candidates[i] = e)

\* the shift teams as the rotation loop emits them, one per shift
MonthRotation(employees, contexts, lvl, shifts, required_fixed) ==
  LET num_floaters == Len(employees) - required_fixed
      floater_candidates == FloaterCandidates(employees, contexts, lvl, num_floaters)
      fixed_staff == SelectSeq(employees, LAMBDA e : e \notin Range(floater_candidates))
      shift_teams == InitialShiftTeams(fixed_staff, Len(shifts))
  IN RotationLoop(1, shift_teams, shifts, [contexts |-> contexts, lvl |-> lvl], <<>>)

generate_month_with_constraints(employees, contexts, lvl, nm, shifts, pps, required_fixed) ==
  LET num_floaters == Len(employees) - required_fixed
      floater_candidates == FloaterCandidates(employees, contexts, lvl, num_floaters)
      rotated == MonthRotation(employees, contexts, lvl, shifts, required_fixed)
  IN List([k \in 1..Len(shifts) |->
        [shift |-> shifts[k],
         assigned_staff |-> List([j \in 1..Len(rotated[k].team) |-> nm[rotated[k].team[j]]]),
         floaters |-> LET fl == FloatersOfShift(floater_candidates, k, Len(shifts))
                      IN List([j \in 1..Len(fl) |-> nm[fl[j]]])]])

\* a label whose year does not advance after December
MonthLabelSameYear(start, month_index) ==
  [year |-> start.year,
   month |-> ((start.month + month_index - 1) % 12) + 1]

\* the label of month start + month_index, as (year, month)
MonthLabel(start, month_index) ==
  [year |-> start.year + ((start.month + month_index - 1) \div 12),
   month |-> ((start.month + month_index - 1) % 12) + 1]

\* returns the schedule: a sequence of [label, shifts]; <<>> is Python's {}
generate_with_constraints(template, pps, all_employees, months, h, lvl, nm, t) ==
  LET shifts == desirable_shifts(template)
      num_shifts == Len(shifts)
      required_for_fixed == num_shifts * pps
      contexts == Dict([e \in Range(all_employees) |-> get_employee_context(h, e)])
      start_date == Today(t)
  IN IF num_shifts = 0 THEN <<>>
     ELSE List([m \in 1..(IF months > 0 THEN months ELSE 0) |->
             [label |-> MonthLabel(start_date, m - 1),
              shifts |-> generate_month_with_constraints(
                           all_employees, contexts, lvl, nm, shifts, pps,
                           required_for_fixed)]])

-----------------------------------------------------------------------------
(* StateManager.save_assignment_history *)

\* 'January 2025' -> '2025-01', written as the number 202501
parse_month_key(label) == label.year * 100 + label.month

\* Employee.query.filter_by(name=...).first(): 0 when there is none
EmployeeByName(nm, name) ==
  IF \E e \in DOMAIN nm : nm[e] = name
  THEN CHOOSE e \in DOMAIN nm : nm[e] = name /\ \A f \in DOMAIN nm : nm[f] = name => e <= f
  ELSE 0

\* a save that never looks for the existing row and always inserts
save_employee_history_insert(h, nm, employee_name, month_key, shift_assigned, was_floater, floater_for_shift) ==
  LET employee == EmployeeByName(nm, employee_name)
  IN IF employee = 0 THEN h
     ELSE Append(h, HistoryRow(employee, month_key, shift_assigned, was_floater,
                               floater_for_shift))

save_employee_history(h, nm, employee_name, month_key, shift_assigned, was_floater, floater_for_shift) ==
  LET employee == EmployeeByName(nm, employee_name)
      same(r) == /\ r.employee_id = employee
                 /\ r.team_id = TeamId
                 /\ r.month_year = month_key
  IN IF employee = 0 THEN h
     ELSE IF \E i \in 1..Len(h) : same(h[i])
     THEN LET i == CHOOSE k \in 1..Len(h) : same(h[k]) /\ \A j \in 1..(k - 1) : ~same(h[j])
          IN [h EXCEPT ![i].shift_assigned = shift_assigned,
                       ![i].was_floater = was_floater,
                       ![i].floater_for_shift = floater_for_shift]
     ELSE Append(h, HistoryRow(employee, month_key, shift_assigned, was_floater,
                               floater_for_shift))

\* the calls one shift of one month makes, in order: fixed staff, then floaters
ShiftSaves(month_key, sh) ==
  List([j \in 1..Len(sh.assigned_staff) |->
     [name |-> sh.assigned_staff[j], month_key |-> month_key,
      shift_assigned |-> sh.shift, was_floater |-> FALSE, floater_for_shift |-> None]])
  \o
  List([j \in 1..Len(sh.floaters) |->
     [name |-> sh.floaters[j], month_key |-> month_key,
      shift_assigned |-> None, was_floater |-> TRUE, floater_for_shift |-> sh.shift]])

RECURSIVE MonthSaves(_, _)
MonthSaves(month_key, shifts) ==
  IF shifts = <<>> THEN <<>>
  ELSE ShiftSaves(month_key, Head(shifts)) \o MonthSaves(month_key, Tail(shifts))

RECURSIVE ScheduleSaves(_)
ScheduleSaves(schedule) ==
  IF schedule = <<>> THEN <<>>
  ELSE MonthSaves(parse_month_key(Head(schedule).label), Head(schedule).shifts)
       \o ScheduleSaves(Tail(schedule))

RECURSIVE ApplySaves(_, _, _)
ApplySaves(h, nm, saves) ==
  IF saves = <<>> THEN h
  ELSE LET c == Head(saves)
       IN ApplySaves(save_employee_history(h, nm, c.name, c.month_key, c.shift_assigned,
                                           c.was_floater, c.floater_for_shift),
                     nm, Tail(saves))

save_assignment_history(h, nm, schedule) == ApplySaves(h, nm, ScheduleSaves(schedule))

-----------------------------------------------------------------------------
(* CacheManager *)

\* md5 of "<team_id>_<months>_<json of team_config>": one key per distinct input
generate_cache_key(team_id, months, team_config) ==
  <<team_id, months, team_config.member_count, team_config.shift_template,
    team_config.people_per_shift>>

\* ScheduleCache.query.filter_by(cache_key, cache_type='schedule').first():
\* the index of the row, 0 when there is none
CacheEntryIndex(c, cache_key) ==
  LET hit(i) == c[i].cache_key = cache_key /\ c[i].cache_type = "schedule"
  IN IF \E i \in 1..Len(c) : hit(i)
     THEN CHOOSE i \in 1..Len(c) : hit(i) /\ \A j \in 1..(i - 1) : ~hit(j)
     ELSE 0

\* an entry counted as live at the very hour it expires
CacheValidAtExpiry(c, cache_key, t) ==
  LET i == CacheEntryIndex(c, cache_key)
  IN i # 0 /\ c[i].expires_at >= t

CacheValid(c, cache_key, t) ==
  LET i == CacheEntryIndex(c, cache_key)
  IN i # 0 /\ c[i].expires_at > t

\* returns hit = FALSE for Python's None, and the cache after the call
\* a lookup that evicts the entry it finds expired
get_cached_schedule_evicting(c, cache_key, t) ==
  LET i == CacheEntryIndex(c, cache_key)
  IN IF CacheValid(c, cache_key, t)
     THEN [hit |-> TRUE, value |-> c[i].cached_data,
           cache |-> [c EXCEPT ![i].hit_count = c[i].hit_count + 1]]
     ELSE [hit |-> FALSE, value |-> <<>>,
           cache |-> IF i = 0 THEN c
                     ELSE SubSeq(c, 1, i - 1) \o SubSeq(c, i + 1, Len(c))]

get_cached_schedule(c, cache_key, t) ==
  LET i == CacheEntryIndex(c, cache_key)
  IN IF CacheValid(c, cache_key, t)
     THEN [hit |-> TRUE, value |-> c[i].cached_data,
           cache |-> [c EXCEPT ![i].hit_count = c[i].hit_count + 1]]
     ELSE [hit |-> FALSE, value |-> <<>>, cache |-> c]

\* cache_key is declared unique: the INSERT of a second row with the key fails
CacheInsertAccepted(c, cache_key) ==
  \A i \in 1..Len(c) : c[i].cache_key # cache_key

save_to_cache(c, cache_key, data, cache_type, expire_hours, t) ==
  IF CacheInsertAccepted(c, cache_key)
  THEN [raised |-> FALSE,
        cache |-> Append(c, [cache_key |-> cache_key, cached_data |-> data,
                             cache_type |-> cache_type, created_at |-> t,
                             expires_at |-> t + expire_hours, hit_count |-> 0])]
  ELSE [raised |-> TRUE, cache |-> c]

-----------------------------------------------------------------------------
(* Usage log and the governor *)

\* len(str(schedule_result)) with one-character names and designation titles
MonthNameLen(m) ==
  CASE m \in {5} -> 3
    [] m \in {6, 7} -> 4
    [] m \in {3, 4} -> 5
    [] m \in {8} -> 6
    [] m \in {1, 10} -> 7
    [] m \in {2, 11, 12} -> 8
    [] OTHER -> 9

RECURSIVE SumSeq(_)
SumSeq(s) == IF s = <<>> THEN 0 ELSE Head(s) + SumSeq(Tail(s))

ShiftNameLen(s) ==
  CASE s = "Night" -> 5
    [] s \in {"Morning", "Evening"} -> 7
    [] s = "Afternoon" -> 9
    [] OTHER -> 13

\* "{a, b, c}" or "[a, b, c]" for items of the given lengths
JoinLen(lens) == 2 + SumSeq(lens) + (IF lens = <<>> THEN 0 ELSE 2 * (Len(lens) - 1))

StrLen(schedule) ==
  LET listLen(l) == JoinLen(List([j \in 1..Len(l) |-> 33]))
      shiftLen(sh) == ShiftNameLen(sh.shift) + 4 + 34
                      + listLen(sh.assigned_staff) + listLen(sh.floaters)
      monthLen(mo) == MonthNameLen(mo.label.month) + 9
                      + JoinLen(List([k \in 1..Len(mo.shifts) |-> shiftLen(mo.shifts[k])]))
  IN JoinLen(List([m \in 1..Len(schedule) |-> monthLen(schedule[m])]))

\* cost_per_1k_tokens = 0.002 dollars: the cost in millionths of a dollar
log_api_usage(u, user_id, team_id, api_type, tokens_estimate, t) ==
  Append(u, [user_id |-> user_id, team_id |-> team_id, api_type |-> api_type,
             tokens_used |-> tokens_estimate, cost_estimate |-> tokens_estimate * 2,
             timestamp |-> t, success |-> TRUE])

RATE_LIMITS ==
  [schedule_generation |-> [limit |-> 10, window |-> 3600],
   ai_validation |-> [limit |-> 20, window |-> 3600],
   schedule_fixes |-> [limit |-> 5, window |-> 3600]]

\* a count that takes every user's records of the kind
RecentCallsOfAnyUser(u, user_id, action_type, window_start) ==
  Cardinality({i \in 1..Len(u) : /\ u[i].api_type = action_type
                                 /\ u[i].timestamp >= window_start})

RecentCalls(u, user_id, action_type, window_start) ==
  Cardinality({i \in 1..Len(u) : /\ u[i].user_id = user_id
                                 /\ u[i].api_type = action_type
                                 /\ u[i].timestamp >= window_start})

\* TRUE when the call is allowed
check_rate_limit(u, user_id, action_type, t) ==
  IF action_type \notin DOMAIN RATE_LIMITS THEN TRUE
  ELSE LET limit_config == RATE_LIMITS[action_type]
           window_start == t - (limit_config.window \div 3600)
       IN ~(RecentCalls(u, user_id, action_type, window_start) >= limit_config.limit)

\* dollars held as millionths of a dollar; the warning fraction in percent
COST_THRESHOLDS ==
  [daily_limit |-> 10 * 1000000, monthly_limit |-> 100 * 1000000,
   warning_threshold |-> 80]

CostSince(u, user_id, start) ==
  SumSeq(List([i \in 1..Len(u) |->
            IF u[i].user_id = user_id /\ u[i].timestamp >= start
            THEN u[i].cost_estimate ELSE 0]))

DayStart(t) == t - (t % 24)

MonthStart(t) == t - (24 * (Today(t).day - 1) + Today(t).hour)

\* a cost check that lets a cost equal to the limit pass
check_cost_limits_above(u, user_id, t) ==
  LET daily_cost == CostSince(u, user_id, DayStart(t))
      monthly_cost == CostSince(u, user_id, MonthStart(t))
  IN ~(daily_cost > COST_THRESHOLDS.daily_limit)
     /\ ~(monthly_cost > COST_THRESHOLDS.monthly_limit)

\* TRUE when the call is allowed; costs in millionths of a dollar
check_cost_limits(u, user_id, t) ==
  LET daily_cost == CostSince(u, user_id, DayStart(t))
      monthly_cost == CostSince(u, user_id, MonthStart(t))
  IN ~(daily_cost >= COST_THRESHOLDS.daily_limit)
     /\ ~(monthly_cost >= COST_THRESHOLDS.monthly_limit)

-----------------------------------------------------------------------------
(* generate_monthly_assignments_enhanced: what it returns and what it leaves *)
(* in the history, the cache and the usage log                             *)

\* a usage record written whatever the generator returned
UsageAfterAnyResult(u, user_id, schedule_result, t) ==
  IF user_id # 0
  THEN log_api_usage(u, user_id, TeamId, "generate", StrLen(schedule_result), t)
  ELSE u

UsageAfterGenerate(u, user_id, schedule_result, t) ==
  IF schedule_result # <<>> /\ user_id # 0
  THEN log_api_usage(u, user_id, TeamId, "generate", StrLen(schedule_result), t)
  ELSE u

HistoryAfterGenerate(h, nm, schedule_result) ==
  IF schedule_result # <<>> THEN save_assignment_history(h, nm, schedule_result) ELSE h

TeamConfig(mem, act, template, pps) ==
  [member_count |-> Len(ActiveEmployees(mem, act)),
   shift_template |-> template,
   people_per_shift |-> pps]

\* a generate that records a usage entry for a request served from the cache
generate_recording_hits(tm, months, user_id, h, c, u, t) ==
  LET cache_key == generate_cache_key(TeamId, months,
                     TeamConfig(tm.members, tm.active, tm.shift_template,
                                tm.people_per_shift))
      cached_schedule == get_cached_schedule(c, cache_key, t)
      all_employees == AllEmployees(tm.members, tm.active, tm.level)
      schedule_result ==
        IF all_employees = <<>> THEN <<>>
        ELSE generate_with_constraints(tm.shift_template, tm.people_per_shift,
                                       all_employees, months, h, tm.level, tm.ename, t)
      h2 == HistoryAfterGenerate(h, tm.ename, schedule_result)
      stored == IF schedule_result # <<>>
                THEN save_to_cache(c, cache_key, schedule_result, "schedule", 24, t)
                ELSE [raised |-> FALSE, cache |-> c]
  IN IF cached_schedule.hit /\ cached_schedule.value # <<>>
     THEN [raised |-> FALSE, cached |-> TRUE, result |-> cached_schedule.value,
           history |-> h, cache |-> cached_schedule.cache,
           usage |-> UsageAfterGenerate(u, user_id, cached_schedule.value, t)]
     ELSE IF stored.raised
     THEN [raised |-> TRUE, cached |-> FALSE, result |-> schedule_result,
           history |-> h2, cache |-> cached_schedule.cache, usage |-> u]
     ELSE [raised |-> FALSE, cached |-> FALSE, result |-> schedule_result,
           history |-> h2, cache |-> stored.cache,
           usage |-> UsageAfterGenerate(u, user_id, schedule_result, t)]

generate_monthly_assignments_enhanced(tm, months, user_id, h, c, u, t) ==
  LET cache_key == generate_cache_key(TeamId, months,
                     TeamConfig(tm.members, tm.active, tm.shift_template,
                                tm.people_per_shift))
      cached_schedule == get_cached_schedule(c, cache_key, t)
      all_employees == AllEmployees(tm.members, tm.active, tm.level)
      schedule_result ==
        IF all_employees = <<>> THEN <<>>
        ELSE generate_with_constraints(tm.shift_template, tm.people_per_shift,
                                       all_employees, months, h, tm.level, tm.ename, t)
      h2 == HistoryAfterGenerate(h, tm.ename, schedule_result)
      stored == IF schedule_result # <<>>
                THEN save_to_cache(c, cache_key, schedule_result, "schedule", 24, t)
                ELSE [raised |-> FALSE, cache |-> c]
  IN IF cached_schedule.hit /\ cached_schedule.value # <<>>
     THEN [raised |-> FALSE, cached |-> TRUE, result |-> cached_schedule.value,
           history |-> h, cache |-> cached_schedule.cache, usage |-> u]
     ELSE IF stored.raised
     THEN [raised |-> TRUE, cached |-> FALSE, result |-> schedule_result,
           history |-> h2, cache |-> cached_schedule.cache, usage |-> u]
     ELSE [raised |-> FALSE, cached |-> FALSE, result |-> schedule_result,
           history |-> h2, cache |-> stored.cache,
           usage |-> UsageAfterGenerate(u, user_id, schedule_result, t)]

-----------------------------------------------------------------------------
(* EnhancedScheduleValidator: the local pass over the history rows *)

\* a violation message: its wording (kind) and what it names
Violation(kind, employee_name, shift_name, month_key) ==
  [kind |-> kind, employee |-> employee_name, shift |-> shift_name,
   month |-> month_key]

check_employee_rules(h, nm, lvl, employee_name, shift_name, month_key, is_floater) ==
  LET employee == EmployeeByName(nm, employee_name)
      hist == RecentHistory(h, employee, 3)
      rule2 == IF is_floater /\ lvl[employee] = 1
               THEN <<Violation("RULE 2 VIOLATION", employee_name, None, month_key)>>
               ELSE <<>>
      rule3 == IF is_floater /\ hist # <<>> /\ hist[1].was_floater
               THEN <<Violation("RULE 3 VIOLATION", employee_name, None, month_key)>>
               ELSE <<>>
      rule4 == IF /\ ~is_floater /\ hist # <<>>
                  /\ get_stability_months(lvl[employee]) <= 1
                  /\ hist[1].shift_assigned = shift_name
               THEN <<Violation("RULE 4 VIOLATION", employee_name, shift_name, month_key)>>
               ELSE <<>>
  IN IF employee = 0
     THEN <<Violation("Employee not found", employee_name, None, 0)>>
     ELSE rule2 \o rule3 \o rule4

RECURSIVE StaffViolations(_, _, _, _, _, _, _)
StaffViolations(h, nm, lvl, names, shift_name, month_key, is_floater) ==
  IF names = <<>> THEN <<>>
  ELSE check_employee_rules(h, nm, lvl, Head(names), shift_name, month_key, is_floater)
       \o StaffViolations(h, nm, lvl, Tail(names), shift_name, month_key, is_floater)

RECURSIVE ShiftViolations(_, _, _, _, _)
ShiftViolations(h, nm, lvl, shifts, month_key) ==
  IF shifts = <<>> THEN <<>>
  ELSE StaffViolations(h, nm, lvl, Head(shifts).assigned_staff, Head(shifts).shift,
                       month_key, FALSE)
       \o StaffViolations(h, nm, lvl, Head(shifts).floaters, Head(shifts).shift,
                          month_key, TRUE)
       \o ShiftViolations(h, nm, lvl, Tail(shifts), month_key)

RECURSIVE validate_against_history(_, _, _, _)
validate_against_history(h, nm, lvl, schedule) ==
  IF schedule = <<>> THEN <<>>
  ELSE ShiftViolations(h, nm, lvl, Head(schedule).shifts,
                       parse_month_key(Head(schedule).label))
       \o validate_against_history(h, nm, lvl, Tail(schedule))

-----------------------------------------------------------------------------
(* validate_schedule_with_enhanced_ai: the oracle pass and the logs *)

\* a JSON value in the place of a list: a list of items, or null
JsonList(items) == [is_list |-> TRUE, items |-> items]

JsonNull == [is_list |-> FALSE, items |-> <<>>]

ReportKeys == {"is_valid", "total_violations", "violations", "severity",
               "recommendations"}

\* a JSON object the oracle answered or the validator built: keys says which
\* of the fields the object has, the other fields are not read
Report(keys, is_valid, total_violations, violations, severity, recommendations) ==
  [kind |-> "object", keys |-> keys, is_valid |-> is_valid,
   total_violations |-> total_violations, violations |-> violations,
   severity |-> severity, recommendations |-> recommendations]

\* what model.generate_content and json.loads can give: an exception (error,
\* timeout, text that is no JSON), a JSON value that is no object, or an object
OracleResponses ==
  {[kind |-> "raises"],
   [kind |-> "not_object"],
   Report(ReportKeys, TRUE, 0, JsonList(<<>>), "low", <<>>),
   Report(ReportKeys, FALSE, 1,
          JsonList(<<Violation("RULE 5 VIOLATION", 0, "Morning", 0)>>), "medium",
          <<"Mix the hierarchy levels">>),
   Report({}, FALSE, 0, JsonList(<<>>), "", <<>>),
   Report({"is_valid"}, TRUE, 0, JsonList(<<>>), "", <<>>),
   Report(ReportKeys, FALSE, 1, JsonNull, "low", <<>>)}

\* dict.get(key, default)
Get(result, key, value, default) == IF key \in result.keys THEN value ELSE default

\* raises AttributeError when the JSON value has no .get
log_validation_result(vlog, team_id, validation_result) ==
  IF validation_result.kind # "object"
  THEN [raised |-> TRUE, validation_log |-> vlog]
  ELSE [raised |-> FALSE,
        validation_log |->
          Append(vlog,
            [team_id |-> team_id, validation_result |-> validation_result,
             violations_found |-> Get(validation_result, "total_violations",
                                      validation_result.total_violations, 0),
             is_valid |-> Get(validation_result, "is_valid",
                              validation_result.is_valid, FALSE)])]

\* the RuleViolation rows added to the session; raises TypeError when violations
\* is no list
save_rule_violations(team_id, violations, t) ==
  IF ~violations.is_list
  THEN [raised |-> TRUE, added |-> <<>>]
  ELSE [raised |-> FALSE,
        added |->
          LET ruled == SelectSeq(violations.items,
                         LAMBDA v : v.kind \in {"RULE 2 VIOLATION", "RULE 3 VIOLATION",
                                                "RULE 4 VIOLATION", "RULE 5 VIOLATION"})
          IN List([i \in 1..Len(ruled) |->
               [team_id |-> team_id, rule_description |-> ruled[i].kind,
                violation_detail |-> ruled[i],
                month_year |-> parse_month_key(Today(t))]])]

\* a validator whose failure report names only the oracle error
validate_schedule_error_only(schedule_data, h, nm, lvl, vlog, response, t) ==
  LET rule_violations_found == validate_against_history(h, nm, lvl, schedule_data)
      logged == log_validation_result(vlog, TeamId, response)
      saving == save_rule_violations(TeamId,
                  Get(response, "violations", response.violations, JsonList(<<>>)), t)
      error_result ==
        Report(ReportKeys, FALSE, Len(rule_violations_found),
               JsonList(<<Violation("AI validation error", 0, None, 0)>>),
               "high", <<"Manual review required due to AI validation failure">>)
      failed(vlog_now) ==
        [report |-> error_result,
         validation_log |-> log_validation_result(vlog_now, TeamId, error_result).validation_log,
         added |-> <<>>, local |-> rule_violations_found]
  IN IF response.kind = "raises" THEN failed(vlog)
     ELSE IF logged.raised THEN failed(vlog)
     ELSE IF saving.raised THEN failed(logged.validation_log)
     ELSE [report |-> response, validation_log |-> logged.validation_log,
           added |-> saving.added, local |-> rule_violations_found]

\* returns the report, the validation log after the call and the RuleViolation
\* rows left in the session
validate_schedule_with_enhanced_ai(schedule_data, h, nm, lvl, vlog, response, t) ==
  LET rule_violations_found == validate_against_history(h, nm, lvl, schedule_data)
      logged == log_validation_result(vlog, TeamId, response)
      saving == save_rule_violations(TeamId,
                  Get(response, "violations", response.violations, JsonList(<<>>)), t)
      error_result ==
        Report(ReportKeys, FALSE, Len(rule_violations_found),
               JsonList(rule_violations_found
                          \o <<Violation("AI validation error", 0, None, 0)>>),
               "high", <<"Manual review required due to AI validation failure">>)
      failed(vlog_now) ==
        [report |-> error_result,
         validation_log |-> log_validation_result(vlog_now, TeamId, error_result).validation_log,
         added |-> <<>>, local |-> rule_violations_found]
  IN IF response.kind = "raises" THEN failed(vlog)
     ELSE IF logged.raised THEN failed(vlog)
     ELSE IF saving.raised THEN failed(logged.validation_log)
     ELSE [report |-> response, validation_log |-> logged.validation_log,
           added |-> saving.added, local |-> rule_violations_found]

-----------------------------------------------------------------------------
(* The emergency fallback *)

emergency_shifts(template) ==
  IF team_shifts_map(template) # <<>> THEN team_shifts_map(template)
  ELSE <<"Morning", "Afternoon", "Night">>

emergency_month(active_employees, nm, shifts, pps) ==
  LET n == Len(active_employees)
      remaining_start == Len(shifts) * pps
  IN List([k \in 1..Len(shifts) |->
        [shift |-> shifts[k],
         assigned_staff |->
           List([j \in 1..(IF pps > 0 THEN pps ELSE 0) |->
              nm[active_employees[(((k - 1) * pps + (j - 1)) % n) + 1]]]),
         floaters |->
           IF remaining_start < n /\ remaining_start + (k - 1) < n
           THEN <<nm[active_employees[remaining_start + (k - 1) + 1]]>>
           ELSE <<>>]])

emergency_schedule_data(tm, t) ==
  IF ActiveEmployees(tm.members, tm.active) = <<>> THEN <<>>
  ELSE
  <<[label |-> [year |-> Today(t).year, month |-> Today(t).month],
     shifts |-> emergency_month(ActiveEmployees(tm.members, tm.active), tm.ename,
                                emergency_shifts(tm.shift_template),
                                tm.people_per_shift)]>>

-----------------------------------------------------------------------------
(* Requests *)

Users == {1, 2}
Templates == {"3-shift", "4-shift", "5-shift", "2-shift"}

gender == [e \in Emp |-> IF e % 2 = 1 THEN "Male" ELSE "Female"]

Team == [ename |-> ename, level |-> level, active |-> active, members |-> members,
         shift_template |-> shift_template, people_per_shift |-> people_per_shift]

\* what the last operation answered: arg is the cache key or the action kind of
\* an operation called on its own
\* a warning list that warns only above the warning fraction
cost_warnings_above(u, user_id, t) ==
  LET daily_cost == CostSince(u, user_id, DayStart(t))
      monthly_cost == CostSince(u, user_id, MonthStart(t))
  IN (IF daily_cost >
          (COST_THRESHOLDS.daily_limit \div 100) * COST_THRESHOLDS.warning_threshold
      THEN <<"Daily cost warning">> ELSE <<>>)
     \o (IF monthly_cost >
             (COST_THRESHOLDS.monthly_limit \div 100) * COST_THRESHOLDS.warning_threshold
         THEN <<"Monthly cost warning">> ELSE <<>>)

\* the warning list check_cost_limits builds once neither limit denies;
\* warning_threshold is a percentage, so limit * 0.8 is (limit / 100) * 80
cost_warnings(u, user_id, t) ==
  LET daily_cost == CostSince(u, user_id, DayStart(t))
      monthly_cost == CostSince(u, user_id, MonthStart(t))
  IN (IF daily_cost >=
          (COST_THRESHOLDS.daily_limit \div 100) * COST_THRESHOLDS.warning_threshold
      THEN <<"Daily cost warning">> ELSE <<>>)
     \o (IF monthly_cost >=
             (COST_THRESHOLDS.monthly_limit \div 100) * COST_THRESHOLDS.warning_threshold
         THEN <<"Monthly cost warning">> ELSE <<>>)

\* the second component of check_cost_limits' answer: the denial message, or
\* the warning list
cost_message(u, user_id, t) ==
  LET daily_cost == CostSince(u, user_id, DayStart(t))
      monthly_cost == CostSince(u, user_id, MonthStart(t))
  IN IF daily_cost >= COST_THRESHOLDS.daily_limit
     THEN <<"Daily cost limit exceeded">>
     ELSE IF monthly_cost >= COST_THRESHOLDS.monthly_limit
     THEN <<"Monthly cost limit exceeded">>
     ELSE cost_warnings(u, user_id, t)

RetArg(op, status, schedule, cached, user, months, arg) ==
  [op |-> op, status |-> status, schedule |-> schedule, cached |-> cached,
   user |-> user, months |-> months, arg |-> arg]

Ret(op, status, schedule, cached, user, months) ==
  RetArg(op, status, schedule, cached, user, months, None)

\* POST /generate_schedule
GenerateSchedulePost(user, months) ==
  \E g \in {generate_monthly_assignments_enhanced(Team, months, user, history, cache,
                                                 usage, now)} :
  LET rate_ok == check_rate_limit(usage, user, "generate", now)
      cost_ok == check_cost_limits(usage, user, now)
  IN IF ~rate_ok
     THEN /\ ret' = Ret("generate_schedule", "rate_limited", <<>>, FALSE, user, months)
          /\ UNCHANGED <<teamVars, logVars, req, history, cache, usage, saved, now>>
     ELSE IF ~cost_ok
     THEN /\ ret' = Ret("generate_schedule", "cost_limited", <<>>, FALSE, user, months)
          /\ UNCHANGED <<teamVars, logVars, req, history, cache, usage, saved, now>>
     ELSE IF saved # <<>>
     THEN /\ ret' = Ret("generate_schedule", "exists", <<>>, FALSE, user, months)
          /\ UNCHANGED <<teamVars, logVars, req, history, cache, usage, saved, now>>
     ELSE /\ history' = g.history
          /\ cache' = g.cache
          /\ usage' = g.usage
          /\ saved' = IF ~g.raised /\ g.result # <<>> THEN <<g.result>> ELSE saved
          /\ ret' = Ret("generate_schedule",
                        IF g.raised THEN "raised"
                        ELSE IF g.result # <<>> THEN "saved" ELSE "failed",
                        IF g.raised THEN <<>> ELSE g.result, g.cached, user, months)
          /\ UNCHANGED <<teamVars, logVars, req, now>>

\* what a request did besides answering: the oracle calls it made and the
\* report it showed
PageArg(oracle_calls, validated, report, local) ==
  [oracle_calls |-> oracle_calls, validated |-> validated, report |-> report,
   local |-> local]

NoReport == Report({}, FALSE, 0, JsonList(<<>>), "", <<>>)

\* GET /generate_schedule?team_id=..., with GEMINI_API_KEY set or not and the
\* answer the oracle gives when it is called
GenerateScheduleGet(user, api_key, response) ==
  LET cost_ok == check_cost_limits(usage, user, now)
      validates == saved # <<>> /\ api_key
  IN \E v \in {IF validates
               THEN validate_schedule_with_enhanced_ai(saved[1], history, ename, level,
                                                       validation_log, response, now)
               ELSE [report |-> NoReport, validation_log |-> validation_log,
                     added |-> <<>>, local |-> <<>>]} :
       /\ validation_log' = v.validation_log
       /\ ret' = RetArg("generate_schedule_get",
                       IF cost_ok THEN "shown" ELSE "cost_limited",
                       IF saved # <<>> THEN saved[1] ELSE <<>>, FALSE, user, 0,
                       PageArg(IF validates THEN 1 ELSE 0, validates, v.report, v.local))
       /\ UNCHANGED <<teamVars, rule_violations, req, history, cache, usage, saved, now>>

\* POST /batch_generate with the team selected
BatchGenerate(user, months) ==
  \E g \in {generate_monthly_assignments_enhanced(Team, months, user, history, cache,
                                                 usage, now)} :
  LET cost_ok == check_cost_limits(usage, user, now)
      rate_ok == check_rate_limit(usage, user, "generate", now)
  IN IF ~cost_ok
     THEN /\ ret' = Ret("batch_generate", "cost_limited", <<>>, FALSE, user, months)
          /\ UNCHANGED <<teamVars, logVars, req, history, cache, usage, saved, now>>
     ELSE IF saved # <<>>
     THEN /\ ret' = Ret("batch_generate", "exists", <<>>, FALSE, user, months)
          /\ UNCHANGED <<teamVars, logVars, req, history, cache, usage, saved, now>>
     ELSE IF ~rate_ok
     THEN /\ ret' = Ret("batch_generate", "rate_limited", <<>>, FALSE, user, months)
          /\ UNCHANGED <<teamVars, logVars, req, history, cache, usage, saved, now>>
     ELSE /\ history' = g.history
          /\ cache' = g.cache
          /\ usage' = g.usage
          /\ saved' = IF ~g.raised /\ g.result # <<>> THEN <<g.result>> ELSE saved
          /\ ret' = Ret("batch_generate",
                        IF g.raised THEN "raised"
                        ELSE IF g.result # <<>> THEN "saved" ELSE "failed",
                        IF g.raised THEN <<>> ELSE g.result, g.cached, user, months)
          /\ UNCHANGED <<teamVars, logVars, req, now>>

\* the rows of a table that belong to other teams
RowsOfOtherTeams(rows, team_id) == SelectSeq(rows, LAMBDA r : r.team_id # team_id)

\* a delete_schedule that also clears the team's history
DeleteScheduleAndHistory ==
  /\ saved' = <<>>
  /\ validation_log' = IF saved # <<>> THEN RowsOfOtherTeams(validation_log, TeamId)
                       ELSE validation_log
  /\ rule_violations' = IF saved # <<>> THEN RowsOfOtherTeams(rule_violations, TeamId)
                        ELSE rule_violations
  /\ history' = IF saved # <<>> THEN RowsOfOtherTeams(history, TeamId) ELSE history
  /\ ret' = Ret("delete_schedule", IF saved # <<>> THEN "deleted" ELSE "none",
                <<>>, FALSE, 0, 0)
  /\ UNCHANGED <<teamVars, req, cache, usage, now>>

\* POST /delete_schedule/<team_id>
DeleteSchedule ==
  /\ saved' = <<>>
  /\ validation_log' = IF saved # <<>> THEN RowsOfOtherTeams(validation_log, TeamId)
                       ELSE validation_log
  /\ rule_violations' = IF saved # <<>> THEN RowsOfOtherTeams(rule_violations, TeamId)
                        ELSE rule_violations
  /\ ret' = Ret("delete_schedule", IF saved # <<>> THEN "deleted" ELSE "none",
                <<>>, FALSE, 0, 0)
  /\ UNCHANGED <<teamVars, req, history, cache, usage, now>>

\* the team row is there (delete_team and manage_teams remove it)
TeamPresent == shift_template # None

\* POST /team/delete/<team_id>
DeleteTeam ==
  /\ TeamPresent
  /\ saved' = <<>>
  /\ history' = RowsOfOtherTeams(history, TeamId)
  /\ validation_log' = RowsOfOtherTeams(validation_log, TeamId)
  /\ rule_violations' = RowsOfOtherTeams(rule_violations, TeamId)
  /\ usage' = RowsOfOtherTeams(usage, TeamId)
  /\ members' = <<>>
  /\ shift_template' = None
  /\ people_per_shift' = 0
  /\ ret' = Ret("delete_team", "deleted", <<>>, FALSE, 0, 0)
  /\ UNCHANGED <<ename, level, active, req, cache, now>>

\* POST /team/manage with action = delete
ManageTeamsDelete ==
  /\ TeamPresent
  /\ saved' = <<>>
  /\ history' = RowsOfOtherTeams(history, TeamId)
  /\ members' = <<>>
  /\ shift_template' = None
  /\ people_per_shift' = 0
  /\ ret' = Ret("manage_teams", "deleted", <<>>, FALSE, 0, 0)
  /\ UNCHANGED <<logVars, ename, level, active, req, cache, usage, now>>

\* GET /emergency_schedule/<team_id>
EmergencySchedule ==
  \E data \in {emergency_schedule_data(Team, now)} :
  LET enough == ~(Len(ActiveEmployees(members, active)) < 3)
  IN /\ saved' = IF enough THEN <<data>> ELSE saved
     /\ ret' = Ret("emergency_schedule", IF enough THEN "saved" ELSE "failed",
                   IF enough THEN data ELSE <<>>, FALSE, 0, 0)
     /\ UNCHANGED <<teamVars, logVars, req, history, cache, usage, now>>

\* POST /employee/delete: the employee is marked inactive
DeleteEmployee(e) ==
  /\ active' = active \ {e}
  /\ ret' = Ret("delete_employee", "done", <<>>, FALSE, 0, 0)
  /\ UNCHANGED <<logVars, req, ename, level, members, shift_template, people_per_shift,
                 history, cache, usage, saved, now>>

\* POST /team/manage, action update
ManageTeamUpdate(selected_ids, template, people) ==
  LET shift_multiplier == CASE template = "3-shift" -> 3
                            [] template = "4-shift" -> 4
                            [] template = "5-shift" -> 5
                            [] OTHER -> 3
      required_min == shift_multiplier * people
      selected_emps == selected_ids \cap active
      male_count == Cardinality({e \in selected_emps : gender[e] = "Male"})
      female_count == Cardinality({e \in selected_emps : gender[e] = "Female"})
      rejected == \/ selected_ids = {}
                  \/ Cardinality(selected_ids) < required_min
                  \/ (male_count < 2 /\ female_count < 2)
      kept == SelectSeq(members, LAMBDA e : e \in selected_ids)
      added == SelectSeq([i \in 1..MaxEmp |-> i],
                         LAMBDA e : e \in selected_ids /\ e \notin Range(members))
  IN /\ members' = IF rejected THEN members ELSE kept \o added
     /\ shift_template' = IF rejected THEN shift_template ELSE template
     /\ people_per_shift' = IF rejected THEN people_per_shift ELSE people
     /\ ret' = Ret("manage_teams", IF rejected THEN "rejected" ELSE "updated",
                   <<>>, FALSE, 0, 0)
     /\ UNCHANGED <<logVars, req, ename, level, active, history, cache, usage, saved, now>>

\* CacheManager.save_to_cache called on its own
SaveToCache(cache_key, data, expire_hours) ==
  \E s \in {save_to_cache(cache, cache_key, data, "schedule", expire_hours, now)} :
    /\ cache' = s.cache
    /\ ret' = RetArg("save_to_cache", IF s.raised THEN "raised" ELSE "stored",
                     data, FALSE, 0, 0, cache_key)
    /\ UNCHANGED <<teamVars, logVars, req, history, usage, saved, now>>

\* CacheManager.get_cached_schedule called on its own
GetCachedSchedule(cache_key) ==
  \E g \in {get_cached_schedule(cache, cache_key, now)} :
    /\ cache' = g.cache
    /\ ret' = RetArg("get_cached_schedule", IF g.hit THEN "hit" ELSE "none",
                     g.value, g.hit, 0, 0, cache_key)
    /\ UNCHANGED <<teamVars, logVars, req, history, usage, saved, now>>

\* _log_api_usage called on its own
LogApiUsage(user, api_type, tokens_estimate) ==
  /\ usage' = log_api_usage(usage, user, TeamId, api_type, tokens_estimate, now)
  /\ ret' = RetArg("log_api_usage", "logged", <<>>, FALSE, user, 0, api_type)
  /\ UNCHANGED <<teamVars, logVars, req, history, cache, saved, now>>

\* check_rate_limit called on its own
CheckRateLimit(user, action_type) ==
  /\ ret' = RetArg("check_rate_limit",
                   IF check_rate_limit(usage, user, action_type, now)
                   THEN "allowed" ELSE "denied",
                   <<>>, FALSE, user, 0, action_type)
  /\ UNCHANGED <<teamVars, logVars, req, history, cache, usage, saved, now>>

\* check_cost_limits called on its own
CheckCostLimits(user) ==
  /\ ret' = RetArg("check_cost_limits",
                   IF check_cost_limits(usage, user, now) THEN "allowed" ELSE "denied",
                   <<>>, FALSE, user, 0, cost_message(usage, user, now))
  /\ UNCHANGED <<teamVars, logVars, req, history, cache, usage, saved, now>>

\* the wall clock moves on by d hours
AdvanceTime(d) ==
  /\ now' = now + d
  /\ ret' = Ret("time", "passed", <<>>, FALSE, 0, 0)
  /\ UNCHANGED <<teamVars, logVars, req, history, cache, usage, saved>>

-----------------------------------------------------------------------------
(* Spec: the life of one team's schedule over the months *)

ShiftCount(template) ==
  CASE template = "3-shift" -> 3
    [] template = "4-shift" -> 4
    [] template = "5-shift" -> 5
    [] OTHER -> 0

\* the designations of the staff: all junior, one of each tier then junior,
\* junior with the most senior employee listed last
LevelProfiles ==
  {[e \in Emp |-> 3],
   [e \in Emp |-> IF e <= 2 THEN e ELSE 3],
   [e \in Emp |-> IF e = MaxEmp THEN 1 ELSE 3]}

\* a team as POST /team/add leaves it: enough members for the template
TeamAdded ==
  /\ ename = [e \in Emp |-> e]
  /\ level \in LevelProfiles
  /\ active = Emp
  /\ members = [i \in 1..MaxEmp |-> i]
  /\ shift_template \in Templates
  /\ people_per_shift \in 1..MaxPps
  /\ ~(Len(members) < ShiftCount(shift_template) * people_per_shift)

\* ---- POST /generate_schedule as the steps two requests can interleave ----
\* Every request runs in its own thread with its own database session; a step
\* is what the handler does between two points where it reads or commits.

MaxRequests == 2

Requests == 1..MaxRequests

IdleRequest ==
  [pc |-> "idle", user |-> 0, months |-> 0, schedule_result |-> <<>>, cached |-> FALSE,
   generated |-> FALSE, committed |-> FALSE, overlaps |-> {}, status |-> "none"]

InFlight(r) == r.pc \notin {"idle", "done"}

\* the request ends and the handler answers
Finish(p, r, status) ==
  /\ req' = [req EXCEPT ![p] = [r EXCEPT !.pc = "done", !.status = status]]
  /\ ret' = Ret("generate_schedule", status,
                IF status = "saved" THEN r.schedule_result ELSE <<>>,
                r.cached, r.user, r.months)

RequestCacheKey(r) ==
  generate_cache_key(TeamId, r.months,
                     TeamConfig(members, active, shift_template, people_per_shift))

\* the rate check, the cost check and the look for a stored schedule
RequestBegin(p, user, months) ==
  LET r == [req[p] EXCEPT !.user = user, !.months = months,
                          !.overlaps = {q \in Requests : q # p /\ InFlight(req[q])}]
  IN /\ req[p].pc = "idle"
     /\ IF ~check_rate_limit(usage, user, "generate", now)
        THEN Finish(p, r, "rate_limited")
        ELSE IF ~check_cost_limits(usage, user, now)
        THEN Finish(p, r, "cost_limited")
        ELSE IF saved # <<>>
        THEN Finish(p, r, "exists")
        ELSE req' = [req EXCEPT ![p] = [r EXCEPT !.pc = "lookup"]] /\ UNCHANGED ret
     /\ UNCHANGED <<teamVars, logVars, history, cache, usage, saved, now>>

\* CacheManager.get_cached_schedule; a hit is returned to the route
RequestLookup(p) ==
  /\ req[p].pc = "lookup"
  /\ \E cached_schedule \in {get_cached_schedule(cache, RequestCacheKey(req[p]), now)} :
       /\ cache' = cached_schedule.cache
       /\ req' = [req EXCEPT ![p] =
                    IF cached_schedule.hit /\ cached_schedule.value # <<>>
                    THEN [@ EXCEPT !.pc = "save", !.cached = TRUE,
                                   !.schedule_result = cached_schedule.value]
                    ELSE [@ EXCEPT !.pc = "generate"]]
  /\ UNCHANGED <<teamVars, logVars, history, usage, saved, now, ret>>

\* _generate_with_constraints with the history the request reads now
RequestGenerate(p) ==
  /\ req[p].pc = "generate"
  /\ \E schedule_result \in
         {LET all_employees == AllEmployees(members, active, level)
          IN IF all_employees = <<>> THEN <<>>
             ELSE generate_with_constraints(shift_template, people_per_shift,
                                            all_employees, req[p].months, history,
                                            level, ename, now)} :
       req' = [req EXCEPT ![p] =
                 [@ EXCEPT !.pc = IF schedule_result # <<>> THEN "commit" ELSE "save",
                           !.generated = TRUE,
                           !.schedule_result = schedule_result]]
  /\ UNCHANGED <<teamVars, logVars, history, cache, usage, saved, now, ret>>

\* state_manager.save_assignment_history
RequestCommit(p) ==
  /\ req[p].pc = "commit"
  /\ history' = save_assignment_history(history, ename, req[p].schedule_result)
  /\ req' = [req EXCEPT ![p] = [@ EXCEPT !.pc = "cache_store", !.committed = TRUE]]
  /\ UNCHANGED <<teamVars, logVars, cache, usage, saved, now, ret>>

\* CacheManager.save_to_cache; the insert of a key that is there raises
RequestCacheStore(p) ==
  /\ req[p].pc = "cache_store"
  /\ \E stored \in {save_to_cache(cache, RequestCacheKey(req[p]), req[p].schedule_result,
                                  "schedule", 24, now)} :
       /\ cache' = stored.cache
       /\ IF stored.raised
          THEN Finish(p, req[p], "raised")
          ELSE req' = [req EXCEPT ![p] = [@ EXCEPT !.pc = "log_usage"]] /\ UNCHANGED ret
  /\ UNCHANGED <<teamVars, logVars, history, usage, saved, now>>

\* _log_api_usage
RequestLogUsage(p) ==
  /\ req[p].pc = "log_usage"
  /\ usage' = UsageAfterGenerate(usage, req[p].user, req[p].schedule_result, now)
  /\ req' = [req EXCEPT ![p] = [@ EXCEPT !.pc = "save"]]
  /\ UNCHANGED <<teamVars, logVars, history, cache, saved, now, ret>>

\* the route stores the schedule; SavedSchedule.team_id is unique
RequestSave(p) ==
  /\ req[p].pc = "save"
  /\ IF req[p].schedule_result = <<>>
     THEN Finish(p, req[p], "failed") /\ UNCHANGED saved
     ELSE IF saved # <<>>
     THEN Finish(p, req[p], "raised") /\ UNCHANGED saved
     ELSE Finish(p, req[p], "saved") /\ saved' = <<req[p].schedule_result>>
  /\ UNCHANGED <<teamVars, logVars, history, cache, usage, now>>

Init ==
  /\ TeamAdded
  /\ history = <<>>
  /\ cache = <<>>
  /\ usage = <<>>
  /\ saved = <<>>
  /\ validation_log = <<>>
  /\ rule_violations = <<>>
  /\ now = 0
  /\ req = [p \in Requests |-> IdleRequest]
  /\ ret = Ret("init", "done", <<>>, FALSE, 0, 0)

\* the user who is logged in
CurrentUser == CHOOSE u \in Users : \A v \in Users : u <= v

HitsBelowCap == \A i \in 1..Len(cache) : cache[i].hit_count < MaxHits

MonthHours == 24 * 31

Next ==
  \/ \E months \in 1..MaxMonths :
       HitsBelowCap /\ GenerateSchedulePost(CurrentUser, months)
  \/ DeleteSchedule
  \/ EmergencySchedule
  \/ now + MonthHours <= MonthHours * MaxMonthSteps /\ AdvanceTime(MonthHours)

Spec == Init /\ [][Next]_vars

-----------------------------------------------------------------------------
(* SpecStaff: the roster and the team settings change between requests *)

CacheBelowCap == Len(cache) < MaxCacheRows

NextStaff ==
  \/ \E months \in 0..MaxMonths :
       CacheBelowCap /\ HitsBelowCap /\ GenerateSchedulePost(CurrentUser, months)
  \/ DeleteSchedule
  \/ \E e \in Emp : e \in active /\ DeleteEmployee(e)

SpecStaff == Init /\ [][NextStaff]_vars

-----------------------------------------------------------------------------
(* SpecTeam: the team is edited between requests *)

InitTeam == Init /\ shift_template = "3-shift" /\ level = [e \in Emp |-> 3]

\* the member lists the admin submits: the whole staff but one employee
TeamSelections == {Emp \ {e} : e \in Emp}

NextTeam ==
  \/ \E months \in 1..MaxMonths :
       CacheBelowCap /\ HitsBelowCap /\ GenerateSchedulePost(CurrentUser, months)
  \/ DeleteSchedule
  \/ \E selected_ids \in TeamSelections, people \in 1..MaxPps :
       ManageTeamUpdate(selected_ids, shift_template, people)

SpecTeam == InitTeam /\ [][NextTeam]_vars

-----------------------------------------------------------------------------
(* SpecCache: the cache manager on its own, hour by hour *)

MaxTtl == 2
MaxHours == 3

\* the team whose requests feed the cache: the whole staff, all of one tier
CacheTeamConfig ==
  [member_count |-> MaxEmp, shift_template |-> "3-shift", people_per_shift |-> 1]

InitCache ==
  /\ Init
  /\ level = [e \in Emp |-> 3]
  /\ TeamConfig(members, active, shift_template, people_per_shift) = CacheTeamConfig

\* the fingerprints of the team's requests
CacheKeys ==
  {generate_cache_key(TeamId, months, CacheTeamConfig) : months \in 1..MaxMonths}

\* schedules of the team, as the generator makes them
CachePayloads ==
  {generate_with_constraints(CacheTeamConfig.shift_template,
     CacheTeamConfig.people_per_shift,
     AllEmployees(List([i \in 1..MaxEmp |-> i]), Emp, [e \in Emp |-> 3]),
     months, <<>>, [e \in Emp |-> 3], [e \in Emp |-> e], 0) :
       months \in 1..MaxMonths}

NextCache ==
  \/ \E cache_key \in CacheKeys, data \in CachePayloads, expire_hours \in 1..MaxTtl :
       SaveToCache(cache_key, data, expire_hours)
  \/ \E cache_key \in CacheKeys : HitsBelowCap /\ GetCachedSchedule(cache_key)
  \/ now < MaxHours /\ AdvanceTime(1)

SpecCache == InitCache /\ [][NextCache]_vars

-----------------------------------------------------------------------------
(* SpecRate: the usage log and the rate check on their own, hour by hour *)

MaxUsage == 6
MaxRateHours == 2

\* who logs what: two users with the limited kind, one of them with another kind
RateSubjects == (Users \X {"schedule_fixes"}) \cup {<<CurrentUser, "generate">>}

NextRate ==
  \/ \E sk \in RateSubjects :
       Len(usage) < MaxUsage /\ LogApiUsage(sk[1], sk[2], 100)
  \/ \E sk \in RateSubjects : CheckRateLimit(sk[1], sk[2])
  \/ now < MaxRateHours /\ AdvanceTime(1)

SpecRate == InitCache /\ [][NextRate]_vars

-----------------------------------------------------------------------------
(* SpecCost: the usage log and the cost check on their own, over two months *)

MaxCostRecords == 4
MaxCostHours == 744

\* who logs calls of which size: 5 and 50 dollars for one user, 5 for another
\* token counts that cost $8, $10 and $40, so that the sums meet the limits
\* and their warning fractions exactly
CostSubjects ==
  {<<CurrentUser, 4000000>>, <<CurrentUser, 5000000>>,
   <<CurrentUser, 20000000>>} \cup
  ((Users \ {CurrentUser}) \X {2500000})

\* half a day passes on the first day of a month, or a whole November
NextCost ==
  \/ \E ut \in CostSubjects :
       Len(usage) < MaxCostRecords /\ LogApiUsage(ut[1], "generate", ut[2])
  \/ \E user \in Users : CheckCostLimits(user)
  \/ \E d \in {12, 720} :
       /\ now + d <= MaxCostHours
       /\ d = 12 => now % 720 < 24
       /\ AdvanceTime(d)

SpecCost == InitCache /\ [][NextCost]_vars

-----------------------------------------------------------------------------
(* SpecPage: the schedule page, loaded and posted to, with the oracle behind it *)

MaxValidations == 2
MaxPageUsage == 2
MaxViolationRows == 2

\* the calls logged before: ten dollars' worth at a time
PageTokens == 5 * 1000000

NextPage ==
  \/ CacheBelowCap /\ HitsBelowCap /\ Len(usage) < MaxPageUsage
       /\ GenerateSchedulePost(CurrentUser, 1)
  \/ CacheBelowCap /\ HitsBelowCap /\ Len(usage) < MaxPageUsage
       /\ BatchGenerate(CurrentUser, 1)
  \/ \E api_key \in BOOLEAN, response \in OracleResponses :
       Len(validation_log) < MaxValidations
         /\ GenerateScheduleGet(CurrentUser, api_key, response)
  \/ DeleteSchedule
  \/ Len(usage) < MaxPageUsage /\ LogApiUsage(CurrentUser, "generate", PageTokens)

SpecPage == InitCache /\ [][NextPage]_vars

-----------------------------------------------------------------------------
(* What the claims speak of *)

Roster == ActiveEmployees(members, active)

ShiftsOfTeam == desirable_shifts(shift_template)

SufficientStaff == Len(Roster) >= Len(ShiftsOfTeam) * people_per_shift

\* r is what a request returned whose schedule the generator produced
FreshGenerate(r) == r.op = "generate_schedule" /\ r.status = "saved" /\ ~r.cached

CountIn(seq, x) == Cardinality({i \in 1..Len(seq) : seq[i] = x})

Occurrences(month, name) ==
  SumSeq(List([k \in 1..Len(month.shifts) |->
            CountIn(month.shifts[k].assigned_staff, name)
            + CountIn(month.shifts[k].floaters, name)]))

FixedOn(month, name) ==
  {month.shifts[k].shift : k \in {j \in 1..Len(month.shifts) :
                                    CountIn(month.shifts[j].assigned_staff, name) > 0}}

FloatersOf(schedule) ==
  UNION {UNION {Range(schedule[m].shifts[k].floaters) :
                  k \in 1..Len(schedule[m].shifts)} : m \in 1..Len(schedule)}

\* the shift recorded in h for employee e in the month before label, or None
PreviousMonthShift(h, e, label) ==
  LET prev == parse_month_key(MonthLabel(label, -1))
      rows == {i \in 1..Len(h) : /\ h[i].employee_id = e
                                 /\ h[i].team_id = TeamId
                                 /\ h[i].month_year = prev}
  IN IF rows = {} THEN None ELSE h[CHOOSE i \in rows : TRUE].shift_assigned

\* the rotation loop of a generation from history h swaps two shift teams
SwapFired(h) ==
  LET all == AllEmployees(members, active, level)
      rotated == MonthRotation(all,
                   Dict([e \in Range(all) |-> get_employee_context(h, e)]),
                   level, ShiftsOfTeam, Len(ShiftsOfTeam) * people_per_shift)
  IN \E k \in 1..Len(rotated) : rotated[k].swaps > 0

\* C1: every month of a generated schedule lists each active member exactly
\* once across all fixed-staff and floater lists, for a sufficiently staffed team
C1_EachMemberOncePerMonth ==
  (FreshGenerate(ret) /\ SufficientStaff) =>
    \A m \in 1..Len(ret.schedule) : \A e \in Range(Roster) :
      Occurrences(ret.schedule[m], ename[e]) = 1

\* C2: an employee with stability window 1 who is fixed staff in the first
\* generated month is not on the shift history records for the month before,
\* unless the swap repair ran in that generation
C2_RotatesAgainstHistory ==
  [][FreshGenerate(ret') =>
       (\A e \in Range(Roster) :
          (/\ get_stability_months(level[e]) <= 1
           /\ PreviousMonthShift(history, e, ret'.schedule[1].label)
                \in FixedOn(ret'.schedule[1], ename[e]))
          => SwapFired(history))]_vars

\* C3: within one run an employee with stability window 1 is not fixed staff
\* on the same shift in two consecutive months, unless the swap repair ran
C3_MonthsChained ==
  [][FreshGenerate(ret') =>
       (\A m \in 1..(Len(ret'.schedule) - 1) : \A e \in Range(Roster) :
          (/\ get_stability_months(level[e]) <= 1
           /\ FixedOn(ret'.schedule[m], ename[e])
                \cap FixedOn(ret'.schedule[m + 1], ename[e]) # {})
          => SwapFired(history))]_vars

NoTopLevelFloater(schedule) ==
  \A name \in FloatersOf(schedule) :
    EmployeeByName(ename, name) # 0 => level[EmployeeByName(ename, name)] # 1

\* C4: no floater of a returned or stored schedule has hierarchy level 1
C4_NoLevelOneFloater ==
  /\ (ret.op \in {"generate_schedule", "emergency_schedule"}) => NoTopLevelFloater(ret.schedule)
  /\ \A i \in 1..Len(saved) : NoTopLevelFloater(saved[i])

\* C5: a request that returns a generated schedule had a roster of at least
\* shiftCount x peoplePerShift, and every shift of every month of that schedule
\* has at least peoplePerShift fixed staff
C5_FailsWhenUnderstaffed ==
  FreshGenerate(ret) =>
    /\ SufficientStaff
    /\ \A m \in 1..Len(ret.schedule) : \A k \in 1..Len(ret.schedule[m].shifts) :
         Len(ret.schedule[m].shifts[k].assigned_staff) >= people_per_shift

\* C6: a generate request that ends in failure leaves the history, the cache,
\* the usage log and the stored schedule as they were before it
C6_FailureLeavesNoTrace ==
  [][(ret'.op = "generate_schedule" /\ ret'.status = "failed")
       => UNCHANGED <<history, cache, usage, saved>>]_vars

\* a request failed on an empty roster after history, cache and usage were filled
C6_Witness ==
  /\ ret.op = "generate_schedule" /\ ret.status = "failed"
  /\ Roster = <<>>
  /\ history # <<>> /\ cache # <<>> /\ usage # <<>>

\* the rows of the cache that a lookup of cache_key is about
EntriesOf(cache_key) ==
  {i \in 1..Len(cache) : cache[i].cache_key = cache_key
                         /\ cache[i].cache_type = "schedule"}

\* C7: a lookup of a stored fingerprint returns the stored payload at every hour
\* strictly before the entry's expiry and returns absent from the expiry onward
C7_LookupUntilExpiry ==
  [][ret'.op = "get_cached_schedule" =>
       \A i \in EntriesOf(ret'.arg) :
         IF now < cache[i].expires_at
         THEN ret'.cached /\ ret'.schedule = cache[i].cached_data
         ELSE ~ret'.cached /\ ret'.status = "none"]_vars

\* a lookup answered absent at the very hour its entry expired
C7_Witness ==
  /\ ret.op = "get_cached_schedule" /\ ~ret.cached
  /\ \E i \in EntriesOf(ret.arg) :
       cache[i].expires_at = now /\ cache[i].hit_count > 0

\* the names a schedule lists, fixed staff and floaters
NamesIn(schedule) ==
  UNION {UNION {Range(schedule[m].shifts[k].assigned_staff)
                  \cup Range(schedule[m].shifts[k].floaters) :
                  k \in 1..Len(schedule[m].shifts)} : m \in 1..Len(schedule)}

\* C8: a schedule served from the cache lists only employees who are active
\* members of the team at the time of the request
C8_CacheServesOwnComposition ==
  (ret.op = "generate_schedule" /\ ret.cached) =>
    NamesIn(ret.schedule) \subseteq {ename[e] : e \in Range(Roster)}

\* C9: a store of a fingerprint that has no live entry succeeds, and a lookup of
\* it right after returns the payload just stored
C9_StoreAfterExpiry ==
  [][(ret'.op = "save_to_cache" /\ ~CacheValid(cache, ret'.arg, now)) =>
       /\ ret'.status = "stored"
       /\ get_cached_schedule(cache', ret'.arg, now').hit
       /\ get_cached_schedule(cache', ret'.arg, now').value = ret'.schedule]_vars

\* the records of the user and kind of the last rate check that are no older
\* than the window of one hour
RecordsInWindow ==
  {i \in 1..Len(usage) : /\ usage[i].user_id = ret.user
                         /\ usage[i].api_type = ret.arg
                         /\ now - usage[i].timestamp <= 1}

\* C10: a rate check of a limited kind answers denied exactly when at least
\* limit records of that user and kind lie inside the trailing window; records
\* older than the window, of other users or of other kinds do not count
C10_CheckRate ==
  (ret.op = "check_rate_limit" /\ ret.arg \in DOMAIN RATE_LIMITS) =>
    (ret.status = "denied" <=>
       Cardinality(RecordsInWindow) >= RATE_LIMITS[ret.arg].limit)

\* allowed again: limit records of the user have aged out while another user's
\* record is still inside the window
C10_Witness ==
  /\ ret.op = "check_rate_limit" /\ ret.arg \in DOMAIN RATE_LIMITS
  /\ ret.status = "allowed"
  /\ Cardinality({i \in 1..Len(usage) : /\ usage[i].user_id = ret.user
                                        /\ usage[i].api_type = ret.arg})
       >= RATE_LIMITS[ret.arg].limit
  /\ \E i \in 1..Len(usage) : /\ usage[i].user_id # ret.user
                              /\ usage[i].api_type = ret.arg
                              /\ now - usage[i].timestamp <= 1

SameDay(t1, t2) ==
  /\ Today(t1).year = Today(t2).year
  /\ Today(t1).month = Today(t2).month
  /\ Today(t1).day = Today(t2).day

SameMonth(t1, t2) ==
  Today(t1).year = Today(t2).year /\ Today(t1).month = Today(t2).month

\* the summed cost of the user's records taken on the calendar day of now
DailyCost(user) ==
  SumSeq(List([i \in 1..Len(usage) |->
     IF usage[i].user_id = user /\ SameDay(usage[i].timestamp, now)
     THEN usage[i].cost_estimate ELSE 0]))

\* the summed cost of the user's records taken in the calendar month of now
MonthlyCost(user) ==
  SumSeq(List([i \in 1..Len(usage) |->
     IF usage[i].user_id = user /\ SameMonth(usage[i].timestamp, now)
     THEN usage[i].cost_estimate ELSE 0]))

\* C11: a cost check answers denied exactly when the user's cost of the current
\* calendar day is at least the daily limit or the cost of the current calendar
\* month is at least the monthly limit
C11_CheckCost ==
  ret.op = "check_cost_limits" =>
    (ret.status = "denied" <=>
       \/ DailyCost(ret.user) >= COST_THRESHOLDS.daily_limit
       \/ MonthlyCost(ret.user) >= COST_THRESHOLDS.monthly_limit)

\* denied with the day's cost exactly at the daily limit, the month's below its own
C11_Witness ==
  /\ ret.op = "check_cost_limits" /\ ret.status = "denied"
  /\ DailyCost(ret.user) = COST_THRESHOLDS.daily_limit
  /\ MonthlyCost(ret.user) < COST_THRESHOLDS.monthly_limit

\* ---- POST /fix_schedule ----

\* the shift teams of every month moved on by one shift
RotateTeams(schedule) ==
  List([m \in 1..Len(schedule) |->
    [label |-> schedule[m].label,
     shifts |-> List([k \in 1..Len(schedule[m].shifts) |->
       [shift |-> schedule[m].shifts[k].shift,
        assigned_staff |->
          schedule[m].shifts[(k % Len(schedule[m].shifts)) + 1].assigned_staff,
        floaters |-> schedule[m].shifts[k].floaters]])]])

\* fix_schedule_with_ai(schedule, violations, rules, api_key): the repair
\* interface answers (corrected schedule, success); the oracle may give up,
\* hand the schedule back as it was, or hand back a changed one
FixOutcomes(schedule) ==
  {[success |-> FALSE, corrected_schedule |-> <<>>],
   [success |-> TRUE, corrected_schedule |-> schedule],
   [success |-> TRUE, corrected_schedule |-> RotateTeams(schedule)]}

FixArg(success, corrected_schedule, report, revalidation, revalidated) ==
  [success |-> success, corrected_schedule |-> corrected_schedule, report |-> report,
   revalidation |-> revalidation, revalidated |-> revalidated]

FixSchedule(user, api_key, response, fix, second_response) ==
  LET answer(status, arg) ==
        ret' = RetArg("fix_schedule", status, IF saved # <<>> THEN saved[1] ELSE <<>>,
                      FALSE, user, 0, arg)
      none == FixArg(FALSE, <<>>, NoReport, NoReport, FALSE)
  IN IF ~check_rate_limit(usage, user, "schedule_fixes", now)
     THEN /\ answer("rate_limited", none)
          /\ UNCHANGED <<teamVars, logVars, req, history, cache, usage, saved, now>>
     ELSE IF ~check_cost_limits(usage, user, now)
     THEN /\ answer("cost_limited", none)
          /\ UNCHANGED <<teamVars, logVars, req, history, cache, usage, saved, now>>
     ELSE IF ~api_key
     THEN /\ answer("no_api_key", none)
          /\ UNCHANGED <<teamVars, logVars, req, history, cache, usage, saved, now>>
     ELSE IF saved = <<>>
     THEN /\ answer("no_schedule", none)
          /\ UNCHANGED <<teamVars, logVars, req, history, cache, usage, saved, now>>
     ELSE
       \E v \in {validate_schedule_with_enhanced_ai(saved[1], history, ename, level,
                                                    validation_log, response, now)} :
         LET violations == Get(v.report, "violations", v.report.violations, JsonList(<<>>))
         IN IF ~violations.is_list \/ violations.items = <<>>
            THEN /\ answer("already_valid", FixArg(FALSE, <<>>, v.report, NoReport, FALSE))
                 /\ validation_log' = v.validation_log
                 /\ UNCHANGED <<teamVars, rule_violations, req, history, cache, usage,
                                saved, now>>
            ELSE IF ~fix.success
            THEN /\ answer("fix_failed", FixArg(FALSE, <<>>, v.report, NoReport, FALSE))
                 /\ validation_log' = v.validation_log
                 /\ UNCHANGED <<teamVars, rule_violations, req, history, cache, usage,
                                saved, now>>
            ELSE
              \E w \in {validate_schedule_with_enhanced_ai(fix.corrected_schedule, history,
                          ename, level, v.validation_log, second_response, now)} :
                LET accepted == Get(w.report, "is_valid", w.report.is_valid, FALSE)
                IN /\ answer(IF accepted THEN "corrected" ELSE "partial",
                             FixArg(TRUE, fix.corrected_schedule, v.report, w.report,
                                    TRUE))
                   /\ validation_log' = w.validation_log
                   \* the commit of the second log entry also writes the violation
                   \* records of the first pass; those of the second are written
                   \* by the commit that stores the corrected schedule
                   /\ rule_violations' =
                        rule_violations \o v.added \o (IF accepted THEN w.added ELSE <<>>)
                   /\ saved' = IF accepted THEN <<fix.corrected_schedule>> ELSE saved
                   /\ UNCHANGED <<teamVars, req, history, cache, usage, now>>

NextFix ==
  \/ CacheBelowCap /\ HitsBelowCap /\ Len(usage) < MaxPageUsage
       /\ GenerateSchedulePost(CurrentUser, 1)
  \/ \E api_key \in BOOLEAN, response, second_response \in OracleResponses :
       \E fix \in FixOutcomes(IF saved # <<>> THEN saved[1] ELSE <<>>) :
         /\ Len(validation_log) < MaxValidations
         /\ Len(rule_violations) < MaxViolationRows
         /\ FixSchedule(CurrentUser, api_key, response, fix, second_response)
  \/ DeleteSchedule
  \/ Len(usage) < MaxPageUsage /\ LogApiUsage(CurrentUser, "schedule_fixes", PageTokens)

SpecFix == InitCache /\ [][NextFix]_vars

\* the routes that write or remove the records of one team
NextTeardown ==
  \/ TeamPresent /\ CacheBelowCap /\ HitsBelowCap /\ Len(usage) < MaxPageUsage
       /\ GenerateSchedulePost(CurrentUser, 1)
  \/ \E response, second_response \in OracleResponses :
       \E fix \in FixOutcomes(IF saved # <<>> THEN saved[1] ELSE <<>>) :
         /\ TeamPresent
         /\ Len(validation_log) < MaxValidations
         /\ Len(rule_violations) < MaxViolationRows
         /\ FixSchedule(CurrentUser, TRUE, response, fix, second_response)
  \/ TeamPresent /\ DeleteSchedule
  \/ TeamPresent /\ EmergencySchedule
  \/ TeamPresent /\ Len(usage) < MaxPageUsage
       /\ LogApiUsage(CurrentUser, "schedule_fixes", PageTokens)
  \/ DeleteTeam
  \/ ManageTeamsDelete

SpecTeardown == InitCache /\ [][NextTeardown]_vars

\* ---- the generator on larger rosters ----
MaxRoster == 8

RosterSizes == 6..MaxRoster

\* the designations of n employees, listed senior first
RosterLevels(n) ==
  {f \in [1..n -> Levels] : \A i \in 1..(n - 1) : f[i] <= f[i + 1]}

InitRoster ==
  /\ \E n \in RosterSizes :
       /\ ename = [e \in 1..n |-> e]
       /\ level \in RosterLevels(n)
       /\ active = 1..n
       /\ members = [i \in 1..n |-> i]
  /\ shift_template \in {"3-shift", "4-shift"}
  /\ people_per_shift \in 1..MaxPps
  /\ ~(Len(members) < ShiftCount(shift_template) * people_per_shift)
  /\ history = <<>>
  /\ cache = <<>>
  /\ usage = <<>>
  /\ saved = <<>>
  /\ validation_log = <<>>
  /\ rule_violations = <<>>
  /\ now = 0
  /\ req = [p \in Requests |-> IdleRequest]
  /\ ret = Ret("init", "done", <<>>, FALSE, 0, 0)

NextRoster ==
  \/ HitsBelowCap /\ GenerateSchedulePost(CurrentUser, 1)
  \/ DeleteSchedule
  \/ now + MonthHours <= MonthHours * MaxMonthSteps /\ AdvanceTime(MonthHours)

SpecRoster == InitRoster /\ [][NextRoster]_vars

RequestOps == {"generate_schedule", "generate_schedule_get", "batch_generate"}

\* the rate check or the cost check of the request denied the user
Denied(r) == r.op \in RequestOps /\ r.status \in {"rate_limited", "cost_limited"}

\* the request went on to generate_monthly_assignments_enhanced
ReachedGenerator(r) ==
  r.op \in {"generate_schedule", "batch_generate"}
    /\ r.status \in {"saved", "failed", "raised"}

OracleCalls(r) == IF r.op = "generate_schedule_get" THEN r.arg.oracle_calls ELSE 0

\* C12: a request whose rate check or cost check denied the user reaches
\* neither the generator nor the oracle
C12_DenialStopsRequest ==
  Denied(ret) => (~ReachedGenerator(ret) /\ OracleCalls(ret) = 0)

\* the names the month lists, fixed staff and floaters
NamesOfMonth(month) ==
  UNION {Range(month.shifts[k].assigned_staff) \cup Range(month.shifts[k].floaters) :
           k \in 1..Len(month.shifts)}

\* the newest history row of e, as get_employee_context reads it, is a status
\* that month gives to name: fixed on that shift, or floater for that shift
NewestRowMatches(h, e, name, month) ==
  LET rows == RecentHistory(h, e, 3)
  IN /\ rows # <<>>
     /\ \E k \in 1..Len(month.shifts) :
          \/ /\ ~rows[1].was_floater
             /\ rows[1].shift_assigned = month.shifts[k].shift
             /\ CountIn(month.shifts[k].assigned_staff, name) > 0
          \/ /\ rows[1].was_floater
             /\ rows[1].floater_for_shift = month.shifts[k].shift
             /\ CountIn(month.shifts[k].floaters, name) > 0

\* C13: after the history commit of a generated schedule, the newest history
\* row of every employee listed in the schedule's last month carries the status
\* that month gives the employee
C13_CommitRoundTrip ==
  [][FreshGenerate(ret') =>
       \A name \in NamesOfMonth(ret'.schedule[Len(ret'.schedule)]) :
         NewestRowMatches(history', EmployeeByName(ename, name), name,
                          ret'.schedule[Len(ret'.schedule)])]_vars

\* the rows history keeps for one (employee, team, month)
RowsOf(h, e, team_id, month_key) ==
  {i \in 1..Len(h) : /\ h[i].employee_id = e
                     /\ h[i].team_id = team_id
                     /\ h[i].month_year = month_key}

OneRowPerKey(h) ==
  \A i, j \in 1..Len(h) :
    (/\ h[i].employee_id = h[j].employee_id
     /\ h[i].team_id = h[j].team_id
     /\ h[i].month_year = h[j].month_year) => i = j

\* row carries a status that month gives to name
RowMatches(row, name, month) ==
  \E k \in 1..Len(month.shifts) :
    \/ /\ ~row.was_floater
       /\ row.shift_assigned = month.shifts[k].shift
       /\ row.floater_for_shift = None
       /\ CountIn(month.shifts[k].assigned_staff, name) > 0
    \/ /\ row.was_floater
       /\ row.shift_assigned = None
       /\ row.floater_for_shift = month.shifts[k].shift
       /\ CountIn(month.shifts[k].floaters, name) > 0

\* C14: history never holds two rows for one (employee, team, month), and
\* after the commit of a generated schedule the one row of every listed
\* employee and month carries the shift, floater flag and floater-for-shift
\* that the schedule gives
C14_OneRowPerMonth ==
  [][/\ OneRowPerKey(history')
     /\ FreshGenerate(ret') =>
          \A m \in 1..Len(ret'.schedule) :
            \A name \in NamesOfMonth(ret'.schedule[m]) :
              \A i \in RowsOf(history', EmployeeByName(ename, name), TeamId,
                              parse_month_key(ret'.schedule[m].label)) :
                RowMatches(history'[i], name, ret'.schedule[m])]_vars

\* a one-month commit found the month's rows already there (rows of a later
\* month were created after them) and left a status that differs from the
\* later month's
C14_Witness ==
  /\ FreshGenerate(ret)
  /\ Len(ret.schedule) = 1
  /\ OneRowPerKey(history)
  /\ \E i, j \in 1..Len(history) :
       /\ i < j
       /\ history[i].employee_id = history[j].employee_id
       /\ history[i].month_year = parse_month_key(ret.schedule[1].label)
       /\ history[j].month_year > history[i].month_year
       /\ history[i].shift_assigned # history[j].shift_assigned
       /\ \E name \in NamesOfMonth(ret.schedule[1]) :
            /\ EmployeeByName(ename, name) = history[i].employee_id
            /\ RowMatches(history[i], name, ret.schedule[1])

\* the page load validates the stored schedule and the oracle answers response
ValidatesWith(response) ==
  saved # <<>> /\ GenerateScheduleGet(CurrentUser, TRUE, response)

\* what the local pass finds in the stored schedule
LocalViolations == validate_against_history(history, ename, level, saved[1])

\* report is the degraded report of a failed oracle pass: a full report, not
\* valid, severity high, every violation of local listed, manual review advised
DegradedReport(report, local) ==
  /\ report.kind = "object"
  /\ report.keys = ReportKeys
  /\ report.is_valid = FALSE
  /\ report.severity = "high"
  /\ report.violations # JsonNull
  /\ \A i \in 1..Len(local) : CountIn(report.violations.items, local[i]) > 0
  /\ \E i \in 1..Len(report.recommendations) :
       report.recommendations[i] = "Manual review required due to AI validation failure"

\* C15: when the oracle call raises, validate returns a report that lists
\* every local violation, has severity high, is not valid and advises manual
\* review
C15_OracleRaises ==
  [][ValidatesWith([kind |-> "raises"]) =>
       /\ ret'.arg.validated
       /\ DegradedReport(ret'.arg.report, LocalViolations)]_vars

\* a degraded report that carries local violations was returned
C15_Witness ==
  /\ ret.op = "generate_schedule_get"
  /\ ret.arg.validated
  /\ ret.arg.local # <<>>
  /\ DegradedReport(ret.arg.report, ret.arg.local)
  /\ CountIn(ret.arg.report.violations.items,
             Violation("AI validation error", 0, None, 0)) > 0
  /\ Len(ret.arg.report.violations.items) = Len(ret.arg.local) + 1

\* the answers that are not a report of the agreed shape: no JSON object, an
\* object that lacks fields, or a violations field that is no list
NonConforming ==
  {response \in OracleResponses :
     \/ response.kind = "not_object"
     \/ /\ response.kind = "object"
        /\ response.keys # ReportKeys \/ response.violations = JsonNull}

\* C16: an oracle answer that does not have the report shape is handled as an
\* oracle failure, so validate returns the degraded report and never the
\* answer itself
C16_NonConformingIsFailure ==
  [][\A response \in NonConforming :
       ValidatesWith(response) =>
         /\ ret'.arg.report # response
         /\ DegradedReport(ret'.arg.report, LocalViolations)]_vars

\* C17: the report validate returns lists every violation of the local pass,
\* and is not marked valid when the local pass found one
C17_ReportKeepsLocal ==
  (ret.op = "generate_schedule_get" /\ ret.arg.validated) =>
    /\ ret.arg.report.violations # JsonNull
    /\ \A i \in 1..Len(ret.arg.local) :
         CountIn(ret.arg.report.violations.items, ret.arg.local[i]) > 0
    /\ ret.arg.local # <<>> => ~ret.arg.report.is_valid

\* C18: every call of validate appends exactly one validation-log entry,
\* whatever the oracle answers
C18_OneLogEntry ==
  [][\A response \in OracleResponses :
       ValidatesWith(response) => Len(validation_log') = Len(validation_log) + 1]_vars

\* the requests that produce a schedule
ProducingOps == {"generate_schedule", "batch_generate", "emergency_schedule"}

\* C19: a team has at most one stored schedule, and a request that produces a
\* schedule for a team that already has a stored one leaves the stored one as
\* it is
C19_StoredScheduleKept ==
  [][/\ Len(saved') <= 1
     /\ (saved # <<>> /\ ret'.op \in ProducingOps) => saved' = saved]_vars

NextRace ==
  \/ \E p \in Requests, user \in Users, months \in 1..MaxMonths :
       RequestBegin(p, user, months)
  \/ \E p \in Requests : RequestLookup(p)
  \/ \E p \in Requests : RequestGenerate(p)
  \/ \E p \in Requests : RequestCommit(p)
  \/ \E p \in Requests : RequestCacheStore(p)
  \/ \E p \in Requests : RequestLogUsage(p)
  \/ \E p \in Requests : RequestSave(p)

SpecRace == InitCache /\ [][NextRace]_vars

\* p began while q was in flight, or q while p was, for the same fingerprint
RacedForSameFingerprint(p, q) ==
  /\ p # q
  /\ q \in req[p].overlaps \/ p \in req[q].overlaps
  /\ req[p].months = req[q].months

\* C20: of two generate requests in flight together for one fingerprint, at
\* most one runs the generator and at most one commits history
C20_OneGeneratorRun ==
  \A p, q \in Requests :
    RacedForSameFingerprint(p, q) =>
      /\ ~(req[p].generated /\ req[q].generated)
      /\ ~(req[p].committed /\ req[q].committed)

\* the fix request stored another schedule than the one it found
FixReplaced == ret'.op = "fix_schedule" /\ saved' # saved

\* the stored schedule changes in a fix only to the corrected schedule of a
\* repair that succeeded and whose re-validation report says valid
ReplacedOnlyWhenReportedValid ==
  FixReplaced =>
    /\ ret'.arg.success
    /\ ret'.arg.revalidated
    /\ "is_valid" \in ret'.arg.revalidation.keys
    /\ ret'.arg.revalidation.is_valid
    /\ saved' = <<ret'.arg.corrected_schedule>>

\* a fix whose repair failed, or whose corrected schedule still breaks a rule
\* of the local pass, leaves the stored schedule as it was
KeptWhenStillViolating ==
  (/\ ret'.op = "fix_schedule"
   /\ \/ ~ret'.arg.success
      \/ validate_against_history(history, ename, level,
                                  ret'.arg.corrected_schedule) # <<>>)
    => saved' = saved

\* C21: the fix replaces the stored schedule only by a corrected schedule
\* whose repair succeeded and whose re-validation says valid; a failed repair
\* or a corrected schedule that still has violations leaves it untouched
C21_FixReplacesOnlyValid ==
  [][ReplacedOnlyWhenReportedValid /\ KeptWhenStillViolating]_vars

IsPrefix(s, t) == Len(s) <= Len(t) /\ \A i \in 1..Len(s) : t[i] = s[i]

\* C22: usage records are append-only: every step keeps the records there
\* are, unchanged and in place, so that while the clock stands no user's
\* daily or monthly cost goes down
C22_UsageAppendOnly ==
  [][/\ IsPrefix(usage, usage')
     /\ now' = now =>
          \A user \in Users : /\ DailyCost(user)' >= DailyCost(user)
                              /\ MonthlyCost(user)' >= MonthlyCost(user)]_vars

\* the (employee, team, month) keys history holds
HistoryKeys(h) ==
  {<<h[i].employee_id, h[i].team_id, h[i].month_year>> : i \in 1..Len(h)}

\* the answer of a request that removed the team
Teardown(r) == r.op = "delete_team" \/ (r.op = "manage_teams" /\ r.status = "deleted")

\* C23: only the teardown of the team removes history records: deleting the
\* stored schedule, generating again, fixing and the emergency schedule keep
\* every record
C23_HistoryKept ==
  [][~Teardown(ret') =>
       /\ Len(history') >= Len(history)
       /\ HistoryKeys(history) \subseteq HistoryKeys(history')]_vars

\* the stored schedule of a team with history was deleted, generated again
\* and replaced by the fix, and the history is still there
C23_Witness ==
  /\ history # <<>>
  /\ ret.op = "fix_schedule"
  /\ ret.status = "corrected"
  /\ \E i \in 1..Len(cache) : cache[i].hit_count > 0

\* h is what a commit of schedule leaves: every listed employee has, for every
\* month of the schedule, a row with a status that month gives
HoldsCommitOf(h, schedule) ==
  \A m \in 1..Len(schedule) :
    \A name \in NamesOfMonth(schedule[m]) :
      LET rows == RowsOf(h, EmployeeByName(ename, name), TeamId,
                         parse_month_key(schedule[m].label))
      IN /\ rows # {}
         /\ \A i \in rows : RowMatches(h[i], name, schedule[m])

\* a generate request that stored its schedule, served from the cache or
\* not, has committed it to history
CommittedWhenStored ==
  (ret'.op = "generate_schedule" /\ ret'.status = "saved")
    => HoldsCommitOf(history', ret'.schedule)

\* a generate request that stored no schedule has written no history
NotCommittedWhenNotStored ==
  (ret'.op = "generate_schedule" /\ ret'.status # "saved") => history' = history

\* C24: a generate request commits its schedule to history when the schedule
\* ends up stored, also when it came from the cache, and writes no history
\* when no schedule ends up stored
C24_CommitPerStoredSchedule ==
  [][CommittedWhenStored /\ NotCommittedWhenNotStored]_vars

\* the generate request of this step got past its checks, the generator
\* produced a schedule, and the cache store after it raised
StoreFailedAfterGenerate ==
  /\ ret'.op = "generate_schedule"
  /\ ret'.status \notin {"rate_limited", "cost_limited", "exists"}
  /\ LET g == generate_monthly_assignments_enhanced(Team, ret'.months, ret'.user,
                                                    history, cache, usage, now)
     IN ~g.cached /\ g.result # <<>> /\ g.raised

\* C25: when the cache store fails after the generator produced a schedule,
\* the request still hands the generated schedule to the caller
C25_ScheduleSurvivesStoreFailure ==
  [][StoreFailedAfterGenerate =>
       /\ ret'.status # "raised"
       /\ ret'.schedule # <<>>]_vars

LevelOfName(name) == level[EmployeeByName(ename, name)]

\* the roster has employees of two hierarchy levels at least
SpansLevels == \E a, b \in Range(Roster) : level[a] # level[b]

\* the fixed staff of the shift is of one hierarchy level throughout
Homogeneous(sh) ==
  /\ sh.assigned_staff # <<>>
  /\ \A i, j \in 1..Len(sh.assigned_staff) :
       LevelOfName(sh.assigned_staff[i]) = LevelOfName(sh.assigned_staff[j])

\* the team the rule is stated for: 3 shifts, 2 per shift, 8 employees, 2 of
\* level 1, 2 of level 2 and 4 of level 3
NamedRoster ==
  /\ shift_template = "3-shift"
  /\ people_per_shift = 2
  /\ Len(Roster) = 8
  /\ level = <<1, 1, 2, 2, 3, 3, 3, 3>>

\* C26: for a roster that spans two hierarchy levels and fills every shift, no
\* shift of a generated month has fixed staff of one level only; stated for
\* the named team of 8, which gets no shift of level 3 only
C26_NoHomogeneousShift ==
  (FreshGenerate(ret) /\ SpansLevels /\ SufficientStaff /\ NamedRoster) =>
    \A m \in 1..Len(ret.schedule) :
      \A k \in 1..Len(ret.schedule[m].shifts) : ~Homogeneous(ret.schedule[m].shifts[k])

FloaterCount(month) ==
  SumSeq([k \in 1..Len(month.shifts) |-> Len(month.shifts[k].floaters)])

\* C27: for a roster of n >= shiftCount x peoplePerShift employees every
\* generated month has n - shiftCount x peoplePerShift floaters and
\* peoplePerShift fixed staff on every shift
C27_FloaterAndFixedCounts ==
  (FreshGenerate(ret) /\ SufficientStaff) =>
    \A m \in 1..Len(ret.schedule) :
      /\ FloaterCount(ret.schedule[m])
           = Len(Roster) - Len(ShiftsOfTeam) * people_per_shift
      /\ \A k \in 1..Len(ret.schedule[m].shifts) :
           Len(ret.schedule[m].shifts[k].assigned_staff) = people_per_shift

\* the employees of the roster below the top hierarchy level
EligibleForFloater == {e \in Range(Roster) : level[e] > 1}

FloaterDemand == Len(Roster) - Len(ShiftsOfTeam) * people_per_shift

\* C27, amended: a roster with at least n - shiftCount x peoplePerShift
\* employees below the top level gets that many floaters and peoplePerShift
\* fixed staff on every shift; a roster with fewer gets all of them as floaters
C27_CountsWhenEnoughEligible ==
  (FreshGenerate(ret) /\ SufficientStaff) =>
    \A m \in 1..Len(ret.schedule) :
      IF Cardinality(EligibleForFloater) >= FloaterDemand
      THEN /\ FloaterCount(ret.schedule[m]) = FloaterDemand
           /\ \A k \in 1..Len(ret.schedule[m].shifts) :
                Len(ret.schedule[m].shifts[k].assigned_staff) = people_per_shift
      ELSE FloaterCount(ret.schedule[m]) = Cardinality(EligibleForFloater)

\* a month generated against history for a roster with more eligible
\* employees than floaters to pick
C27_Witness ==
  /\ FreshGenerate(ret)
  /\ history # <<>>
  /\ ret.schedule[1].label.month = 12
  /\ FloaterDemand > 0
  /\ Cardinality(EligibleForFloater) > FloaterDemand
  /\ FloaterCount(ret.schedule[1]) = FloaterDemand

WarningCost(limit) == (limit \div 100) * COST_THRESHOLDS.warning_threshold

HasWarning(r, text) == \E i \in 1..Len(r.arg) : r.arg[i] = text

\* C28: when check_cost_limits does not deny, its warning list holds a daily
\* warning exactly when the user's cost of today has reached 80% of the daily
\* limit and a monthly warning exactly when the cost of the month has reached
\* 80% of the monthly limit; below both fractions the list is empty.
C28_CostWarnings ==
  (ret.op = "check_cost_limits" /\ ret.status = "allowed") =>
    /\ HasWarning(ret, "Daily cost warning")
         <=> DailyCost(ret.user) >= WarningCost(COST_THRESHOLDS.daily_limit)
    /\ HasWarning(ret, "Monthly cost warning")
         <=> MonthlyCost(ret.user) >= WarningCost(COST_THRESHOLDS.monthly_limit)
    /\ (/\ DailyCost(ret.user) < WarningCost(COST_THRESHOLDS.daily_limit)
        /\ MonthlyCost(ret.user) < WarningCost(COST_THRESHOLDS.monthly_limit))
         => ret.arg = <<>>
    /\ Len(ret.arg) <= 2

\* an allowed check whose monthly cost sits exactly on the warning fraction
\* while today's cost is below its own
C28_Witness ==
  /\ ret.op = "check_cost_limits" /\ ret.status = "allowed"
  /\ MonthlyCost(ret.user) = WarningCost(COST_THRESHOLDS.monthly_limit)
  /\ DailyCost(ret.user) < WarningCost(COST_THRESHOLDS.daily_limit)
  /\ ret.arg = <<"Monthly cost warning">>

\* the contexts a generation from history h works with
ContextsOf(h) ==
  Dict([e \in Range(AllEmployees(members, active, level)) |->
          get_employee_context(h, e)])

\* the shift teams a generation from history h emits
RotationOf(h) ==
  MonthRotation(AllEmployees(members, active, level), ContextsOf(h), level,
                ShiftsOfTeam, Len(ShiftsOfTeam) * people_per_shift)

\* the members of the team at shift index k for whom the rotation check fires
FiredAt(h, k) ==
  {e \in Range(RotationOf(h)[k].team) :
     MustSwap(e, k, Len(ShiftsOfTeam), ShiftsOfTeam[k],
              [contexts |-> ContextsOf(h), lvl |-> level])}

\* C29: when the rotation check fires for a member of the team at shift index
\* i, the emitted month has that member's team on shift i + 1 and no longer on
\* shift i, and every member of it is fixed staff of exactly one shift.
C29_AdjacentSwap ==
  [][FreshGenerate(ret') =>
       \A m \in 1..Len(ret'.schedule) : \A k \in 1..(Len(ShiftsOfTeam) - 1) :
         FiredAt(history, k) # {} =>
           \A e \in Range(RotationOf(history)[k].team) :
             FixedOn(ret'.schedule[m], ename[e]) = {ShiftsOfTeam[k + 1]}]_vars

\* the employees listed as floaters of a generated month
FloaterIds(month) ==
  {e \in Range(Roster) :
     \E k \in 1..Len(month.shifts) : CountIn(month.shifts[k].floaters, ename[e]) > 0}

\* the employees history h records as floaters of the month before label
FloatersBefore(h, label) ==
  {e \in Range(Roster) :
     \E i \in 1..Len(h) : /\ h[i].employee_id = e /\ h[i].team_id = TeamId
                          /\ h[i].month_year = parse_month_key(MonthLabel(label, -1))
                          /\ h[i].was_floater}

\* enough eligible employees outside prev exist to fill every floater place
EnoughOthers(prev) == Cardinality(EligibleForFloater \ prev) >= FloaterDemand

\* the first generated month against the month before it in history
NoRepeatAgainstHistory(h, schedule) ==
  EnoughOthers(FloatersBefore(h, schedule[1].label)) =>
    FloaterIds(schedule[1]) \cap FloatersBefore(h, schedule[1].label) = {}

\* each later month against the month generated before it in the same run
NoRepeatWithinRun(schedule) ==
  \A m \in 2..Len(schedule) :
    EnoughOthers(FloaterIds(schedule[m - 1])) =>
      FloaterIds(schedule[m]) \cap FloaterIds(schedule[m - 1]) = {}

\* C30: a generated month has no floater who was a floater in the month before
\* it, be that month a history record or the previous month of the same run,
\* whenever enough other eligible employees exist to fill the floater places.
C30_NoFloaterTwiceInARow ==
  [][FreshGenerate(ret') =>
       /\ NoRepeatAgainstHistory(history, ret'.schedule)
       /\ NoRepeatWithinRun(ret'.schedule)]_vars

\* months-since-last-floater of employee e as a generation from history h sees it
MonthsSinceFloater(h, e) == get_employee_context(h, e).months_since_floater

\* the place of employee e in the roster the generator works on
RosterPlace(e) ==
  CHOOSE i \in 1..Len(AllEmployees(members, active, level)) :
    AllEmployees(members, active, level)[i] = e

\* a ranks before b: longer since floating, then more senior, then roster order
RanksBefore(h, a, b) ==
  \/ MonthsSinceFloater(h, a) > MonthsSinceFloater(h, b)
  \/ /\ MonthsSinceFloater(h, a) = MonthsSinceFloater(h, b)
     /\ \/ level[a] < level[b]
        \/ level[a] = level[b] /\ RosterPlace(a) < RosterPlace(b)

FloaterPlaces ==
  IF FloaterDemand <= 0 THEN 0
  ELSE IF Cardinality(EligibleForFloater) < FloaterDemand
       THEN Cardinality(EligibleForFloater) ELSE FloaterDemand

\* C31: the floaters of a generated month are exactly the first floaterCount
\* employees of the roster restricted to hierarchy level > 1, ranked by
\* descending months-since-last-floater and then ascending hierarchy level; no
\* chosen floater has floated more recently than an eligible one left out.
C31_FloatersAreTopRanked ==
  [][FreshGenerate(ret') =>
       \A m \in 1..Len(ret'.schedule) :
         /\ FloaterIds(ret'.schedule[m]) \subseteq EligibleForFloater
         /\ Cardinality(FloaterIds(ret'.schedule[m])) = FloaterPlaces
         /\ \A c \in FloaterIds(ret'.schedule[m]) :
              \A u \in EligibleForFloater \ FloaterIds(ret'.schedule[m]) :
                /\ RanksBefore(history, c, u)
                /\ MonthsSinceFloater(history, c) >= MonthsSinceFloater(history, u)]_vars

\* a generation that leaves out a more senior eligible employee who floated in
\* the newest record and takes one who did not
C31_Witness ==
  /\ FreshGenerate(ret)
  /\ ret.schedule[1].label.month = 12
  /\ \E c \in FloaterIds(ret.schedule[1]) :
       \E u \in EligibleForFloater \ FloaterIds(ret.schedule[1]) :
         /\ level[u] < level[c]
         /\ \E i \in 1..Len(history) :
              /\ history[i].employee_id = u /\ history[i].month_year = 202511
              /\ history[i].was_floater

\* the floater flags of the newest records of employee e, newest first
FloaterWindow(h, e) == get_employee_context(h, e).floater_history

NeverFloated(h, e) == \A i \in 1..Len(FloaterWindow(h, e)) : ~FloaterWindow(h, e)[i]

FloatedLastMonth(h, e) == FloaterWindow(h, e) # <<>> /\ FloaterWindow(h, e)[1]

\* the value the context is specified to hold: the index (0 = newest) of the
\* first floater record of the window, or the window length 3 when there is none
SpecifiedMonthsSinceFloater(h, e) ==
  IF NeverFloated(h, e) THEN 3
  ELSE (CHOOSE i \in 1..Len(FloaterWindow(h, e)) :
          /\ FloaterWindow(h, e)[i]
          /\ \A j \in 1..(i - 1) : ~FloaterWindow(h, e)[j]) - 1

ContextValueAsSpecified ==
  \A e \in Range(Roster) :
    MonthsSinceFloater(history, e) = SpecifiedMonthsSinceFloater(history, e)

NeverFloatedRanksAbove ==
  \A a \in Range(Roster) : \A b \in Range(Roster) :
    (NeverFloated(history, a) /\ FloatedLastMonth(history, b))
      => MonthsSinceFloater(history, a) > MonthsSinceFloater(history, b)

\* C32: the context's months-since-floater is the index (0 = newest) of the
\* first floater record among the employee's last 3 records and the window
\* length 3 when none is one, also with fewer than 3 records or none, so that
\* an employee who never floated ranks strictly above one who floated last month.
C32_MonthsSinceFloater == ContextValueAsSpecified /\ NeverFloatedRanksAbove

\* a page load that ran the local validator pass over the stored schedule
LocalPassRan == ret.op = "generate_schedule_get" /\ ret.arg.validated

Reported(v) == CountIn(ret.arg.local, v) > 0

\* C33: the local validator pass reports a rotation violation for a fixed-staff
\* assignment of employee e in month m exactly when e's stability window is one
\* month and the shift recorded for e in the month before m is the shift
\* assigned in m; the record of month m itself is never the one compared.
C33_RotationAgainstPreviousMonth ==
  LocalPassRan =>
    \A m \in 1..Len(ret.schedule) : \A k \in 1..Len(ret.schedule[m].shifts) :
      \A e \in Range(Roster) :
        Reported(Violation("RULE 4 VIOLATION", ename[e],
                           ret.schedule[m].shifts[k].shift,
                           parse_month_key(ret.schedule[m].label)))
        <=> /\ CountIn(ret.schedule[m].shifts[k].assigned_staff, ename[e]) > 0
            /\ get_stability_months(level[e]) <= 1
            /\ PreviousMonthShift(history, e, ret.schedule[m].label)
                 = ret.schedule[m].shifts[k].shift

\* C34: the local validator pass reports a consecutive-floating violation for
\* a floater assignment of employee e in month m exactly when e was a floater
\* in the month before m; a floater of a single-month schedule of a team with no
\* earlier history is not reported when the schedule is validated after commit.
C34_ConsecutiveFloating ==
  LocalPassRan =>
    \A m \in 1..Len(ret.schedule) : \A e \in Range(Roster) :
      Reported(Violation("RULE 3 VIOLATION", ename[e], None,
                         parse_month_key(ret.schedule[m].label)))
      <=> /\ e \in FloaterIds(ret.schedule[m])
          /\ e \in FloatersBefore(history, ret.schedule[m].label)

MaxGateUsage == 10

MaxGateHours == 1

\* the length of a generated schedule's text, as generate estimates its tokens
GateTokens == 370

\* generations of the user for other teams fill the usage log, then the team's
\* own generate request meets the gate
NextGate ==
  \/ Len(usage) < MaxGateUsage /\ LogApiUsage(CurrentUser, "generate", GateTokens)
  \/ \E months \in 1..MaxMonths :
       /\ CacheBelowCap /\ HitsBelowCap /\ Len(usage) <= MaxGateUsage
       /\ GenerateSchedulePost(CurrentUser, months)
  \/ DeleteSchedule
  \/ now < MaxGateHours /\ AdvanceTime(1)

SpecGate == InitCache /\ [][NextGate]_vars

\* the generations recorded for the user within the last hour
GenerationsInWindow ==
  Cardinality({i \in 1..Len(usage) : /\ usage[i].user_id = CurrentUser
                                     /\ usage[i].api_type = "generate"
                                     /\ usage[i].success
                                     /\ usage[i].timestamp >= now - 1})

\* C35: once the user has limit (10) successful non-cached generations recorded
\* within the one-hour window, the user's next generate request is rejected by
\* the rate gate before the generator runs.
C35_GenerationGate ==
  [][(/\ GenerationsInWindow >= RATE_LIMITS.schedule_generation.limit
      /\ ret'.op = "generate_schedule")
       => (ret'.status = "rate_limited" /\ usage' = usage /\ history' = history)]_vars

\* the step ran the validator with its oracle call at least once
OracleValidated == Len(validation_log') > Len(validation_log)

\* the step appended a usage record for the user it answered
UsageRecorded ==
  /\ Len(usage') > Len(usage)
  /\ usage'[Len(usage')].user_id = ret'.user

\* C36: every oracle-backed validation call and every fix call appends a usage
\* record for the calling user, so that fix requests count toward the rate gate
\* of the fixes and oracle cost counts toward the cost thresholds.
C36_OracleCallsRecorded ==
  [][(OracleValidated /\ ret'.op = "fix_schedule") => UsageRecorded]_vars

\* the fingerprint of a generate request of the team for the given months
FingerprintOf(months) ==
  <<TeamId, months, Len(Roster), shift_template, people_per_shift>>

\* the unexpired schedule entries stored under a fingerprint
LiveEntries(key) ==
  {i \in 1..Len(cache) : /\ cache[i].cache_key = key
                          /\ cache[i].cache_type = "schedule"
                          /\ cache[i].expires_at > now}

\* the step answered a generate request that the route let through to generate
GenerateRan ==
  /\ ret'.op = "generate_schedule"
  /\ ret'.status \in {"saved", "failed", "raised"}
  /\ <<history, cache, usage, saved>> # <<history', cache', usage', saved'>>

\* C37: a generate request whose fingerprint has an unexpired cache entry
\* returns exactly the stored payload and runs no generator, writes no history,
\* adds no cache entry and no usage record: of history, cache, usage log and
\* validation records only the entry's hit counter changes (the route then
\* stores the payload it was handed as the team's schedule).
C37_HitServesStoredPayload ==
  [][(GenerateRan /\ LiveEntries(FingerprintOf(ret'.months)) # {}) =>
       \E i \in LiveEntries(FingerprintOf(ret'.months)) :
         /\ ret'.cached /\ ret'.status = "saved"
         /\ ret'.schedule = cache[i].cached_data
         /\ saved' = <<cache[i].cached_data>>
         /\ cache' = [cache EXCEPT ![i].hit_count = cache[i].hit_count + 1]
         /\ history' = history /\ usage' = usage
         /\ validation_log' = validation_log
         /\ rule_violations' = rule_violations]_vars

\* a request served from an entry that another request stored before
C37_Witness ==
  /\ ret.op = "generate_schedule" /\ ret.cached /\ ret.status = "saved"
  /\ saved = <<ret.schedule>>
  /\ \E i \in 1..Len(cache) :
       /\ cache[i].cache_key = FingerprintOf(ret.months)
       /\ cache[i].hit_count > 0
       /\ cache[i].cached_data = ret.schedule
  /\ Len(usage) = 1
  /\ history # <<>>

\* everything of a cache entry but its hit counter
EntryContent(e) ==
  [cache_key |-> e.cache_key, cache_type |-> e.cache_type,
   cached_data |-> e.cached_data, created_at |-> e.created_at,
   expires_at |-> e.expires_at]

\* C38: a lookup never deletes an entry and never changes an entry's payload or
\* expiry; a hit increments the hit counter of the entry it serves by exactly
\* one, and a lookup that misses or finds only an expired entry changes nothing.
C38_LookupFrame ==
  [][ret'.op = "get_cached_schedule" =>
       /\ Len(cache') = Len(cache)
       /\ \A i \in 1..Len(cache) : EntryContent(cache'[i]) = EntryContent(cache[i])
       /\ IF ret'.cached
          THEN \E i \in 1..Len(cache) :
                 /\ cache[i].cache_key = ret'.arg
                 /\ cache[i].expires_at > now
                 /\ cache'[i].hit_count = cache[i].hit_count + 1
                 /\ \A j \in 1..Len(cache) :
                      j # i => cache'[j].hit_count = cache[j].hit_count
          ELSE cache' = cache]_vars

\* a lookup that found only an entry past its expiry and left it in the store
C38_Witness ==
  /\ ret.op = "get_cached_schedule" /\ ~ret.cached
  /\ \E i \in 1..Len(cache) :
       /\ cache[i].cache_key = ret.arg
       /\ cache[i].expires_at < now
  /\ \A i \in 1..Len(cache) : cache[i].cache_key = ret.arg => cache[i].expires_at <= now

\* C39: in the schedule of the emergency fallback for a team with at least 3
\* active employees no employee appears more than once across all fixed-staff
\* and floater lists, also when the roster is smaller than shiftCount x
\* peoplePerShift.
C39_EmergencyNoDuplicates ==
  (ret.op = "emergency_schedule" /\ ret.status = "saved" /\ Len(Roster) >= 3) =>
    \A m \in 1..Len(ret.schedule) : \A e \in Range(Roster) :
      Occurrences(ret.schedule[m], ename[e]) <= 1

\* the calendar month after the one a label names
FollowingMonth(label) ==
  IF label.month = 12 THEN [year |-> label.year + 1, month |-> 1]
  ELSE [year |-> label.year, month |-> label.month + 1]

\* C40: a successful generate for monthCount n >= 1 returns exactly n months,
\* the first labelled with the month of the generation and each next one with
\* the calendar month that follows, the year advancing by one after December.
C40_ConsecutiveMonths ==
  (FreshGenerate(ret) /\ ret.months >= 1) =>
    /\ Len(ret.schedule) = ret.months
    /\ ret.schedule[1].label = [year |-> Today(now).year, month |-> Today(now).month]
    /\ \A m \in 1..(Len(ret.schedule) - 1) :
         ret.schedule[m + 1].label = FollowingMonth(ret.schedule[m].label)

\* a run of several months started in December
C40_Witness ==
  /\ FreshGenerate(ret) /\ ret.months > 1
  /\ ret.schedule[1].label = [year |-> 2025, month |-> 12]
  /\ ret.schedule[2].label = [year |-> 2026, month |-> 1]
  /\ saved = <<ret.schedule>>

====
